---------------------------- MODULE Spec2Model ----------------------------
(***************************************************************************)
(* A model of the code-patcher matching engine.                            *)
(*                                                                         *)
(* The repository holds four snapshots of the class CodePatcher:           *)
(*   "LT"  src/src/codePatcher.ts   block input, windows of N, N-1, N+1     *)
(*   "CA"  src/unnamed/part_000     block input, context-anchored windows   *)
(*   "FW2" src/unnamed/part_001     OLD/NEW, [OLD]/[NEW] and SEARCH/REPLACE *)
(*   "FW1" src/code-patcher.ts      SEARCH/REPLACE only                     *)
(*                                                                         *)
(* A text is a sequence of characters (one-character strings), a line is   *)
(* a text without "\n", and a number of the scoring model is an exact      *)
(* rational <<numerator, denominator>> in lowest terms (the code computes  *)
(* in IEEE doubles; rounding is not modelled).                             *)
(*                                                                         *)
(* The commands of the editor extension, src/src/extension.ts, are         *)
(* modelled as processes that call the engine and wait for the user        *)
(* between their steps.                                                    *)
(***************************************************************************)
EXTENDS Integers, Sequences, FiniteSets, TLC

VARIABLES
    variant,      \* which snapshot of CodePatcher was called
    op,           \* the method called ("idle" before any call)
    fileContent,  \* argument: the document text
    input,        \* argument: the code block (LT, CA) or the patch text (FW1, FW2)
    options,      \* argument: PatchOptions, a function on the fields given
    replacement,  \* argument: the replacement text of applyReplacement
    matchIndex,   \* argument of applyPatch / previewPatch; index of the match applied
    matches,      \* what findMatches returned
    patchResult,  \* what patch returned
    output,       \* what applyPatch / previewPatch / applyReplacement returned
    documents,    \* extension: the text of every file of the workspace
    command,      \* extension: the command that is running ("none" if none)
    pc,           \* extension: the await at which the running command stands
    commandBlock, \* extension: the block the command was given
    autoApply,    \* extension: the setting autoApplySingleMatch the command read
    candidates,   \* extension: the candidates of the scan / the items of the matches
    checked,      \* extension: the number of files the scan has been through
    token,        \* extension: the cancellation token of the scan's progress
    target,       \* extension: the item whose match the command is to apply
    shown,        \* extension: the preview shown in the modal dialog
    answer,       \* extension: the user's last answer to a pick list or dialog
    edit          \* extension: the edit the command handed to applyEdit

engineVars == <<variant, op, fileContent, input, replacement, options, matchIndex,
                matches, patchResult, output>>
editorVars == <<documents, command, pc, commandBlock, autoApply, candidates, checked,
                token, target, shown, answer, edit>>
vars == <<engineVars, editorVars>>

---------------------------------------------------------------------------
(* Characters and texts *)

NL == "\n"
CR == "\r"
SP == " "
TAB == "\t"

\* String.prototype.trim and the regular expression class \s: the white space
\* characters that occur in the modelled texts.
IsWhitespace(c) == c \in {SP, TAB, NL, CR}

Min(a, b) == IF a <= b THEN a ELSE b
Max(a, b) == IF a >= b THEN a ELSE b
Abs(a) == IF a >= 0 THEN a ELSE -a

\* Array.prototype.slice(from, to) on a 0-indexed array or string, for
\* 0 <= from; the elements with index from .. to-1.
Slice(s, from, to) ==
    LET hi == Min(to, Len(s))
    IN  IF from >= hi THEN << >> ELSE [k \in 1..(hi - from) |-> s[from + k]]

RECURSIVE SplitFrom(_, _, _, _)
SplitFrom(t, k, cur, acc) ==
    IF k > Len(t) THEN Append(acc, cur)
    ELSE IF t[k] = NL THEN SplitFrom(t, k + 1, << >>, Append(acc, cur))
    ELSE SplitFrom(t, k + 1, Append(cur, t[k]), acc)

\* text.split('\n'): always at least one line
Split(t) == SplitFrom(t, 1, << >>, << >>)

RECURSIVE JoinFrom(_, _)
JoinFrom(ls, k) ==
    IF k > Len(ls) THEN << >>
    ELSE IF k = Len(ls) THEN ls[k]
    ELSE ls[k] \o <<NL>> \o JoinFrom(ls, k + 1)

\* lines.join('\n')
Join(ls) == JoinFrom(ls, 1)

\* text.trim()
Trim(t) ==
    LET nonws == {k \in 1..Len(t) : ~IsWhitespace(t[k])}
    IN  IF nonws = {} THEN << >>
        ELSE LET lo == CHOOSE k \in nonws : \A m \in nonws : k <= m
                 hi == CHOOSE k \in nonws : \A m \in nonws : k >= m
             IN  [k \in 1..(hi - lo + 1) |-> t[lo + k - 1]]

---------------------------------------------------------------------------
(* Exact rationals *)

RECURSIVE GCD(_, _)
GCD(a, b) == IF b = 0 THEN a ELSE GCD(b, a % b)

Rat(n, d) == LET g == GCD(Abs(n), d) IN <<n \div g, d \div g>>
RInt(n) == <<n, 1>>
RAdd(x, y) == Rat(x[1] * y[2] + y[1] * x[2], x[2] * y[2])
RSub(x, y) == Rat(x[1] * y[2] - y[1] * x[2], x[2] * y[2])
RMul(x, y) == Rat(x[1] * y[1], x[2] * y[2])
RDivInt(x, k) == Rat(x[1], x[2] * k)
RLe(x, y) == x[1] * y[2] <= y[1] * x[2]
RLt(x, y) == x[1] * y[2] < y[1] * x[2]
RMax(x, y) == IF RLe(y, x) THEN x ELSE y
RMin(x, y) == IF RLe(x, y) THEN x ELSE y

---------------------------------------------------------------------------
(* CodePatcher.<method>(...arguments) of the snapshot v.  The static methods *)
(* reach one another through the class (this.<method>); it is defined once   *)
(* the methods of the four snapshots are.                                    *)

RECURSIVE CodePatcher(_, _, _)

---------------------------------------------------------------------------
(* Line similarity (identical in the four snapshots) *)

\* A faulty minimum that forgets the deletion cell; C14_EditDistance must tell
\* it from Math.min of the three cells.
MinOfFirstTwo(a, b, c) == Min(a, b)

Min3(a, b, c) == Min(a, Min(b, c))

\* One row of the matrix: row i (for the character c = str2.charAt(i - 1)) from
\* row i-1.  A row is a sequence whose element j+1 is matrix[i][j].
RECURSIVE LevRow(_, _, _, _, _)
LevRow(prev, c, str1, j, acc) ==
    IF j > Len(str1) THEN acc
    ELSE LET v == IF c = str1[j]
                  THEN prev[j]
                  ELSE Min3(prev[j] + 1, acc[j] + 1, prev[j + 1] + 1)
         IN  LevRow(prev, c, str1, j + 1, Append(acc, v))

RECURSIVE LevRows(_, _, _, _)
LevRows(str1, str2, i, prev) ==
    IF i > Len(str2) THEN prev
    ELSE LevRows(str1, str2, i + 1, LevRow(prev, str2[i], str1, 1, <<i>>))

levenshteinDistance(str1, str2) ==
    LevRows(str1, str2, 1, [j \in 1..(Len(str1) + 1) |-> j - 1])[Len(str1) + 1]

similarityRatio(str1, str2) ==
    LET maxLen == Max(Len(str1), Len(str2))
    IN  IF maxLen = 0 THEN RInt(1)
        ELSE RSub(RInt(1), Rat(levenshteinDistance(str1, str2), maxLen))

RECURSIVE TotalSim(_, _, _)
TotalSim(lines1, lines2, n) ==
    IF n = 0 THEN RInt(0)
    ELSE RAdd(TotalSim(lines1, lines2, n - 1), similarityRatio(lines1[n], lines2[n]))

\* linesSimilarity is only called with two non-empty arrays
linesSimilarity(lines1, lines2) ==
    IF Len(lines1) # Len(lines2)
    THEN LET maxLen == Max(Len(lines1), Len(lines2))
             minLen == Min(Len(lines1), Len(lines2))
             lengthPenalty == RSub(RInt(1), RMul(Rat(maxLen - minLen, maxLen), Rat(1, 2)))
         IN  RMul(RDivInt(TotalSim(lines1, lines2, minLen), minLen), lengthPenalty)
    ELSE RDivInt(TotalSim(lines1, lines2, Len(lines1)), Len(lines1))

\* line.match(/^(\s+)/): the maximal leading run of white space
detectIndent(line) ==
    LET n == IF \A k \in 1..Len(line) : IsWhitespace(line[k]) THEN Len(line)
             ELSE (CHOOSE k \in 1..Len(line) :
                      /\ ~IsWhitespace(line[k])
                      /\ \A m \in 1..(k - 1) : IsWhitespace(line[m])) - 1
    IN  Slice(line, 0, n)

normalizeLines(lines) == [k \in 1..Len(lines) |-> Trim(lines[k])]

linesMatch(lines1, lines2) ==
    /\ Len(lines1) = Len(lines2)
    /\ \A k \in 1..Len(lines1) : lines1[k] = lines2[k]

\* A faulty calculateConfidence that takes nothing off for a difference of
\* length; C27_AdjustedCeiling must tell it from the method.
calculateConfidenceNoLengthPenalty(originalLines, searchLines, opts) ==
    IF linesMatch(normalizeLines(originalLines), normalizeLines(searchLines))
    THEN [confidence |-> RInt(1), similarity |-> RInt(1)]
    ELSE IF ~opts.fuzzyMatch
    THEN [confidence |-> RInt(0), similarity |-> RInt(0)]
    ELSE [confidence |-> linesSimilarity(normalizeLines(originalLines),
                                         normalizeLines(searchLines)),
          similarity |-> linesSimilarity(normalizeLines(originalLines),
                                         normalizeLines(searchLines))]

\* A faulty calculateConfidence that scores the similarity of the lines even
\* with fuzzy matching disabled; C9_ExactOnly must tell it from the method.
calculateConfidenceAlwaysFuzzy(originalLines, searchLines, opts) ==
    IF linesMatch(normalizeLines(originalLines), normalizeLines(searchLines))
    THEN [confidence |-> RInt(1), similarity |-> RInt(1)]
    ELSE [confidence |->
             RMax(RInt(0),
                  RSub(linesSimilarity(normalizeLines(originalLines),
                                       normalizeLines(searchLines)),
                       Rat(Abs(Len(originalLines) - Len(searchLines)), 10))),
          similarity |-> linesSimilarity(normalizeLines(originalLines),
                                         normalizeLines(searchLines))]

calculateConfidence(originalLines, searchLines, opts) ==
    LET normalizedOriginal == normalizeLines(originalLines)
        normalizedSearch == normalizeLines(searchLines)
    IN  IF linesMatch(normalizedOriginal, normalizedSearch)
        THEN [confidence |-> RInt(1), similarity |-> RInt(1)]
        ELSE IF ~opts.fuzzyMatch
        THEN [confidence |-> RInt(0), similarity |-> RInt(0)]
        ELSE LET similarity == linesSimilarity(normalizedOriginal, normalizedSearch)
                 lengthDiff == Abs(Len(originalLines) - Len(searchLines))
                 lengthPenalty == IF lengthDiff > 0 THEN Rat(lengthDiff, 10) ELSE RInt(0)
             IN  [confidence |-> RMax(RInt(0), RSub(similarity, lengthPenalty)),
                  similarity |-> similarity]

---------------------------------------------------------------------------
(* Options, matches and ranking *)

OptionKeys == {"fuzzyMatch", "minConfidence", "contextLines"}

\* { fuzzyMatch: true, minConfidence: <default>, contextLines: 2, ...options }
\* opts is a function on the subset of OptionKeys that the caller gave.
WithDefaults(defaultMinConfidence, opts) ==
    LET defaults == [fuzzyMatch |-> TRUE,
                     minConfidence |-> defaultMinConfidence,
                     contextLines |-> 2]
    IN  [k \in OptionKeys |-> IF k \in DOMAIN opts THEN opts[k] ELSE defaults[k]]

\* A faulty match object whose endLine lies one line too far; C12_RangeInDocument
\* must tell it from the object of the code.
MakeMatchPastEnd(fileLines, i, len, score, opts) ==
    [startLine |-> i,
     endLine |-> i + len + 1,
     baseIndent |-> IF fileLines[i + 1] # << >> THEN detectIndent(fileLines[i + 1])
                    ELSE << >>,
     confidence |-> score.confidence,
     similarity |-> score.similarity,
     contextBefore |-> Slice(fileLines, Max(0, i - opts.contextLines), i),
     contextAfter |-> Slice(fileLines, i + len,
                            Min(Len(fileLines), i + len + opts.contextLines))]

\* the object pushed onto matches for the window [i, i + len) of fileLines
MakeMatch(fileLines, i, len, score, opts) ==
    LET slice == Slice(fileLines, i, i + len)
    IN  [startLine |-> i,
         endLine |-> i + len,
         baseIndent |-> IF slice[1] # << >> THEN detectIndent(slice[1]) ELSE << >>,
         confidence |-> score.confidence,
         similarity |-> score.similarity,
         contextBefore |-> Slice(fileLines, Max(0, i - opts.contextLines), i),
         contextAfter |-> Slice(fileLines, i + len,
                                Min(Len(fileLines), i + len + opts.contextLines))]

\* The windows of len lines whose confidence reaches threshold, in increasing
\* start offset; score holds the confidence and similarity of every window.
KeptWindows(fileLines, len, threshold, opts, score) ==
    LET starts == [k \in 1..Len(score) |-> k - 1]
        kept == SelectSeq(starts, LAMBDA i : RLe(threshold, score[i + 1].confidence))
    IN  [k \in 1..Len(kept) |->
            MakeMatch(fileLines, kept[k], len, score[kept[k] + 1], opts)]

\* One sliding pass of findMatches over the windows of len lines
WindowPass(v, fileLines, blockLines, len, threshold, opts) ==
    KeptWindows(fileLines, len, threshold, opts,
                [k \in 1..Max(0, Len(fileLines) - len + 1) |->
                    CodePatcher(v, "calculateConfidence",
                                <<Slice(fileLines, k - 1, k - 1 + len), blockLines, opts>>)])

\* A faulty filter that lets every match through twice; C11_DistinctRanges must
\* tell it from the filter of the code.
repeatedMatches(ms) == ms \o ms

\* matches.filter((match, index, self) => index === self.findIndex(same range))
uniqueMatches(ms) ==
    LET first(k) == CHOOSE j \in 1..k :
                       /\ ms[j].startLine = ms[k].startLine
                       /\ ms[j].endLine = ms[k].endLine
                       /\ \A m \in 1..(j - 1) :
                             ~(ms[m].startLine = ms[k].startLine /\ ms[m].endLine = ms[k].endLine)
        idx == SelectSeq([k \in 1..Len(ms) |-> k], LAMBDA k : first(k) = k)
    IN  [k \in 1..Len(idx) |-> ms[idx[k]]]

\* Array.prototype.sort as the JavaScript engine of the editor (V8) runs it on
\* an array of fewer than 64 elements: the leading run is found (and reversed
\* if strictly descending), then every further element is placed by a binary
\* search.  before[i, j] says comparator(element i, element j) < 0.  The result
\* lists the original indices in their new order.  With a consistent
\* comparator this is a stable sort; the comparator of "CA" is not transitive,
\* and the order then is the one this procedure produces.
RECURSIVE RunEnd(_, _, _, _)
RunEnd(before, n, descending, k) ==
    IF k > n THEN n
    ELSE IF descending = before[k, k - 1] THEN RunEnd(before, n, descending, k + 1)
    ELSE k - 1

RECURSIVE BinarySearch(_, _, _, _, _)
BinarySearch(before, perm, pivot, left, right) ==
    IF left >= right THEN left
    ELSE LET mid == left + ((right - left) \div 2)
         IN  IF before[pivot, perm[mid + 1]]
             THEN BinarySearch(before, perm, pivot, left, mid)
             ELSE BinarySearch(before, perm, pivot, mid + 1, right)

RECURSIVE BinaryInsertionSort(_, _, _)
BinaryInsertionSort(before, perm, start) ==
    IF start >= Len(perm) THEN perm
    ELSE LET pivot == perm[start + 1]
             left == BinarySearch(before, perm, pivot, 0, start)
         IN  BinaryInsertionSort(before,
                 Slice(perm, 0, left) \o <<pivot>> \o Slice(perm, left, start)
                     \o Slice(perm, start + 1, Len(perm)),
                 start + 1)

SortOrder(n, before) ==
    IF n < 2 THEN [k \in 1..n |-> k]
    ELSE LET descending == before[2, 1]
             run == RunEnd(before, n, descending, 3)
             made == [k \in 1..n |-> IF descending /\ k <= run THEN run + 1 - k ELSE k]
         IN  BinaryInsertionSort(before, made, run)

\* A faulty ranking that leaves the matches in scan order; C7_BestFirst must
\* tell it from the sort.
scanOrder(ms) == ms

\* matches.sort((a, b) => b.confidence - a.confidence)
sortByConfidence(ms) ==
    LET before == [i \in 1..Len(ms), j \in 1..Len(ms) |->
                      RLt(ms[j].confidence, ms[i].confidence)]
        order == SortOrder(Len(ms), before)
    IN  [r \in 1..Len(ms) |-> ms[order[r]]]

---------------------------------------------------------------------------
(* "LT": src/src/codePatcher.ts *)

DefaultMinConfidenceLT == <<3, 5>>
\* A faulty margin: length-adjusted windows held to the plain threshold;
\* C10_ThresholdDecides must tell it from the margin of the code.
NoLengthAdjustedMargin == <<0, 1>>
LengthAdjustedMargin == <<1, 20>>

findMatchesLT(content, codeBlock, opts) ==
    LET defaultOptions == WithDefaults(DefaultMinConfidenceLT, opts)
        fileLines == Split(content)
        blockLines == Split(Trim(codeBlock))
        n == Len(blockLines)
        exact == WindowPass("LT", fileLines, blockLines, n,
                            defaultOptions.minConfidence, defaultOptions)
        adjusted(len) ==
            IF len <= 0 THEN << >>
            ELSE WindowPass("LT", fileLines, blockLines, len,
                            RAdd(defaultOptions.minConfidence, LengthAdjustedMargin),
                            defaultOptions)
    IN  sortByConfidence(uniqueMatches(exact \o adjusted(n - 1) \o adjusted(n + 1)))

---------------------------------------------------------------------------
(* Results *)

\* PatchResult.error is the message itself; NoError stands for an absent field.
NoError == "(no error)"
EmptyBlockMessage == "Empty code block provided"
NoMatchMessageLT ==
    "No matches found. Try including more context lines or lowering minConfidence setting."

PatchResult(ok, ms, err) == [success |-> ok, matches |-> ms, error |-> err]

\* What applyPatch / previewPatch / applyReplacement hand back: a text, null,
\* or a TypeError thrown on reading a property of undefined.
Null == [kind |-> "null"]
Throw == [kind |-> "throw"]
Text(t) == [kind |-> "text", text |-> t]

\* matches[matchIndex] of a JavaScript array: undefined outside 0 .. length-1
Undefined == [undefined |-> TRUE]
IsUndefined(m) == "undefined" \in DOMAIN m
ElementAt(ms, k) == IF k >= 0 /\ k < Len(ms) THEN ms[k + 1] ELSE Undefined

\* A faulty splice that inserts without removing; C2_RoundTrip must tell it
\* from the splice.
SpliceInsertOnly(lines, start, deleteCount, items) ==
    Slice(lines, 0, Min(Max(start, 0), Len(lines))) \o items
        \o Slice(lines, Min(Max(start, 0), Len(lines)), Len(lines))

\* lines.splice(start, deleteCount, ...items) for integer arguments
Splice(lines, start, deleteCount, items) ==
    LET len == Len(lines)
        from == IF start < 0 THEN Max(len + start, 0) ELSE Min(start, len)
        del == Min(Max(deleteCount, 0), len - from)
    IN  Slice(lines, 0, from) \o items \o Slice(lines, from + del, len)

\* A faulty re-indentation that puts the base indent twice; C29_Reapplication
\* must tell it from the map of the code.
ReindentTwice(blockLines, baseIndent) ==
    [k \in 1..Len(blockLines) |->
        IF Trim(blockLines[k]) = << >> THEN blockLines[k]
        ELSE baseIndent \o baseIndent \o Trim(blockLines[k])]

\* A faulty re-indentation that indents blank lines too; C6_Indentation must
\* tell it from the map of the code.
ReindentEveryLine(blockLines, baseIndent) ==
    [k \in 1..Len(blockLines) |-> baseIndent \o Trim(blockLines[k])]

\* blockLines.map(line => line.trim() === '' ? line : match.baseIndent + line.trim())
Reindent(blockLines, baseIndent) ==
    [k \in 1..Len(blockLines) |->
        IF Trim(blockLines[k]) = << >> THEN blockLines[k]
        ELSE baseIndent \o Trim(blockLines[k])]

\* A faulty splice call that removes one line less than the match covers;
\* C20_NoOpReplace must tell it from the method.
ReplaceLinesKeepingLast(fileLines, match, blockLines) ==
    IF IsUndefined(match) THEN Throw
    ELSE Text(Join(Splice(fileLines, match.startLine,
                          match.endLine - match.startLine - 1,
                          Reindent(blockLines, match.baseIndent))))

\* A faulty splice call that drops the lines behind the match;
\* C25_FrameOfSplitLines must tell it from the method.
ReplaceLinesDroppingRest(fileLines, match, blockLines) ==
    IF IsUndefined(match) THEN Throw
    ELSE Text(Join(Slice(fileLines, 0, match.startLine)
                   \o Reindent(blockLines, match.baseIndent)))

\* The common body of applyReplacement once the two texts are split into lines.
\* With match undefined, reading match.baseIndent or match.startLine throws.
ReplaceLines(fileLines, match, blockLines) ==
    IF IsUndefined(match) THEN Throw
    ELSE Text(Join(Splice(fileLines, match.startLine, match.endLine - match.startLine,
                          Reindent(blockLines, match.baseIndent))))

RECURSIVE PrefixedFrom(_, _, _)
PrefixedFrom(ls, prefix, k) ==
    IF k > Len(ls) THEN << >>
    ELSE prefix \o ls[k] \o (IF k < Len(ls) THEN <<NL>> ELSE << >>)
            \o PrefixedFrom(ls, prefix, k + 1)

\* ls.map(line => prefix + line).join('\n')
Prefixed(ls, prefix) == PrefixedFrom(ls, prefix, 1)

\* A faulty preview that shows the replacement lines as they were given;
\* C28_PreviewShowsTheEdit must tell it from the method.
PreviewBodyAsGiven(fileLines, match, blockLines) ==
    (IF Len(match.contextBefore) > 0
        THEN Prefixed(match.contextBefore, <<SP, SP>>) \o <<NL>> ELSE << >>)
    \o Prefixed(Slice(fileLines, match.startLine, match.endLine), <<"-", SP>>) \o <<NL>>
    \o Prefixed(blockLines, <<"+", SP>>) \o <<NL>>
    \o (IF Len(match.contextAfter) > 0
        THEN Prefixed(match.contextAfter, <<SP, SP>>) \o <<NL>> ELSE << >>)

\* The text previewPatch builds after its header line
PreviewBody(fileLines, match, blockLines) ==
    (IF Len(match.contextBefore) > 0
        THEN Prefixed(match.contextBefore, <<SP, SP>>) \o <<NL>> ELSE << >>)
    \o Prefixed(Slice(fileLines, match.startLine, match.endLine), <<"-", SP>>) \o <<NL>>
    \o Prefixed(Reindent(blockLines, match.baseIndent), <<"+", SP>>) \o <<NL>>
    \o (IF Len(match.contextAfter) > 0
        THEN Prefixed(match.contextAfter, <<SP, SP>>) \o <<NL>> ELSE << >>)

\* previewPatch's result: the numbers its header line prints (the 1-indexed
\* range, confidence and the variant's second figure) and the text after it.
Preview(fileLines, match, blockLines, figure) ==
    IF IsUndefined(match) THEN Throw
    ELSE [kind |-> "preview",
          fromLine |-> match.startLine + 1,
          toLine |-> match.endLine,
          confidence |-> match.confidence,
          figure |-> figure,
          text |-> PreviewBody(fileLines, match, blockLines)]

---------------------------------------------------------------------------
(* "LT" continued: applyReplacement, patch, applyPatch, previewPatch *)

applyReplacementLT(content, match, codeBlock) ==
    ReplaceLines(Split(content), match, Split(Trim(codeBlock)))

patchLT(content, codeBlock, opts) ==
    LET trimmedBlock == Trim(codeBlock)
        found == CodePatcher("LT", "findMatches", <<content, trimmedBlock, opts>>)
    IN  IF trimmedBlock = << >> THEN PatchResult(FALSE, << >>, EmptyBlockMessage)
        ELSE IF Len(found) = 0 THEN PatchResult(FALSE, << >>, NoMatchMessageLT)
        ELSE PatchResult(TRUE, found, NoError)

applyPatchLT(content, codeBlock, index, opts) ==
    LET result == CodePatcher("LT", "patch", <<content, codeBlock, opts>>)
    IN  IF ~result.success \/ Len(result.matches) = 0 THEN Null
        ELSE IF index >= Len(result.matches) THEN Null
        ELSE CodePatcher("LT", "applyReplacement",
                         <<content, ElementAt(result.matches, index), codeBlock>>)

previewPatchLT(content, codeBlock, index, opts) ==
    LET result == CodePatcher("LT", "patch", <<content, codeBlock, opts>>)
        match == ElementAt(result.matches, index)
    IN  IF ~result.success \/ Len(result.matches) = 0 \/ index >= Len(result.matches)
        THEN Null
        ELSE Preview(Split(content), match, Split(Trim(codeBlock)),
                     IF IsUndefined(match) THEN 0 ELSE match.similarity)

---------------------------------------------------------------------------
(* Input parsers of the marker variants.  Positions are 0-based, as in the code. *)

SearchMarker == <<"<", "<", "<", "<", "<", "<", "<", SP, "S", "E", "A", "R", "C", "H">>
DividerMarker == <<"=", "=", "=", "=", "=", "=", "=">>
ReplaceMarker == <<">", ">", ">", ">", ">", ">", ">", SP, "R", "E", "P", "L", "A", "C", "E">>

PatchInput(search, replace) == [kind |-> "input", search |-> search, replace |-> replace]
IsNull(x) == x.kind = "null"

MinOf(S) == CHOOSE k \in S : \A m \in S : k <= m
MaxOf(S) == CHOOSE k \in S : \A m \in S : k >= m

StartsWithAt(t, pos, word) ==
    /\ pos + Len(word) <= Len(t)
    /\ \A k \in 1..Len(word) : t[pos + k] = word[k]

\* t.indexOf(word): the first position of word in t, or -1
IndexOf(t, word) ==
    LET at == {pos \in 0..Len(t) : StartsWithAt(t, pos, word)}
    IN  IF at = {} THEN -1 ELSE MinOf(at)

Includes(t, word) == IndexOf(t, word) >= 0

\* t.substring(a, b): both ends are clamped to 0 .. length and swapped if a > b
Substring(t, a, b) ==
    LET ca == Min(Max(a, 0), Len(t))
        cb == Min(Max(b, 0), Len(t))
    IN  Slice(t, Min(ca, cb), Max(ca, cb))

\* A faulty parser that returns the two bodies as they stand between the
\* markers; C16_TrimmedBodies must tell it from the parser of the code.
parseLegacyFormatUntrimmed(t) ==
    IF ~Includes(t, SearchMarker) \/ ~Includes(t, DividerMarker) \/ ~Includes(t, ReplaceMarker)
    THEN Null
    ELSE PatchInput(Substring(t, IndexOf(t, SearchMarker) + Len(SearchMarker),
                              IndexOf(t, DividerMarker)),
                    Substring(t, IndexOf(t, DividerMarker) + Len(DividerMarker),
                              IndexOf(t, ReplaceMarker)))

parseLegacyFormat(t) ==
    IF ~Includes(t, SearchMarker) \/ ~Includes(t, DividerMarker) \/ ~Includes(t, ReplaceMarker)
    THEN Null
    ELSE LET searchStart == IndexOf(t, SearchMarker) + Len(SearchMarker)
             dividerPos == IndexOf(t, DividerMarker)
             replaceStart == dividerPos + Len(DividerMarker)
             replaceEnd == IndexOf(t, ReplaceMarker)
         IN  PatchInput(Trim(Substring(t, searchStart, dividerPos)),
                        Trim(Substring(t, replaceStart, replaceEnd)))

\* The flag i of the regular expressions, on the letters the markers use
LowerCase(c) ==
    CASE c = "O" -> "o" [] c = "L" -> "l" [] c = "D" -> "d"
      [] c = "N" -> "n" [] c = "E" -> "e" [] c = "W" -> "w"
      [] OTHER -> c

StartsWithAtIgnoreCase(t, pos, word) ==
    /\ pos + Len(word) <= Len(t)
    /\ \A k \in 1..Len(word) : LowerCase(t[pos + k]) = LowerCase(word[k])

\* \s* (greedy) from pos: the position after the maximal run of white space
SkipWhitespace(t, pos) ==
    MinOf({q \in pos..Len(t) : q = Len(t) \/ ~IsWhitespace(t[q + 1])})

\* The marker word at position o, followed by  \s*:  when colon, as in
\*   OLD\s*:   NEW\s*:   \[OLD\]   \[NEW\]
\* The position after it, or -1.
MarkerEnd(t, o, word, colon) ==
    IF ~StartsWithAtIgnoreCase(t, o, word) THEN -1
    ELSE IF ~colon THEN o + Len(word)
    ELSE LET c == SkipWhitespace(t, o + Len(word))
         IN  IF c < Len(t) /\ t[c + 1] = ":" THEN c + 1 ELSE -1

\* Whether the white space before position o reaches the start of the input
\* or holds a line break:  (?:^|\n)\s*  can end at o
HeadsLine(t, o) ==
    \E r \in 0..o :
        /\ \A k \in (r + 1)..o : IsWhitespace(t[k])
        /\ r = 0 \/ t[r] = NL

\* \s*\n  (greedy) from position after: the position after the last line
\* break of the white space there, or -1
AfterLastBreak(t, after) ==
    MaxOf({0 - 1} \cup {k \in (after + 1)..SkipWhitespace(t, after) : t[k] = NL})

\* (?:^|\n)\s*<marker>\s*\n  matched with the marker word at position o: the
\* position where the body starts, or -1 if there is no match.
HeaderBodyStart(t, o, word, colon) ==
    IF ~HeadsLine(t, o) \/ MarkerEnd(t, o, word, colon) < 0 THEN 0 - 1
    ELSE AfterLastBreak(t, MarkerEnd(t, o, word, colon))

\* The leftmost match of a header: the body start of the first marker that
\* heads a line, or -1.
FirstHeader(t, word, colon) ==
    IF \A o \in 0..Len(t) : HeaderBodyStart(t, o, word, colon) < 0 THEN 0 - 1
    ELSE HeaderBodyStart(t, MinOf({o \in 0..Len(t) : HeaderBodyStart(t, o, word, colon) >= 0}),
                         word, colon)

\* ([\s\S]*?)(?=\n\s*<marker>|$) from position b: the lazy body ends at the
\* first line break that a marker follows, or at the end of the input.
LazyBodyEnd(t, b, word, colon) ==
    MinOf({e \in b..Len(t) :
              \/ e = Len(t)
              \/ /\ t[e + 1] = NL
                 /\ MarkerEnd(t, SkipWhitespace(t, e + 1), word, colon) >= 0})

\* The PatchInput of one pair of regular expressions whose bodies start at
\* oldBody and newBody (-1: no match of that expression)
MarkerPairInput(t, oldBody, newBody, newWord, colon) ==
    IF oldBody < 0 \/ newBody < 0 THEN Null
    ELSE PatchInput(Trim(Slice(t, oldBody, LazyBodyEnd(t, oldBody, newWord, colon))),
                    Trim(Slice(t, newBody, Len(t))))

ParseMarkerPair(t, oldWord, newWord, colon) ==
    MarkerPairInput(t, FirstHeader(t, oldWord, colon), FirstHeader(t, newWord, colon),
                    newWord, colon)

\* a || b  on two parse results
\* A faulty precedence that prefers the format tried later; C17_Precedence
\* must tell it from the order of the code.
OrElseLater(a, b) == IF ~IsNull(b) THEN b ELSE a

OrElse(a, b) == IF ~IsNull(a) THEN a ELSE b

parseSimpleFormat(t) ==
    OrElse(ParseMarkerPair(t, <<"O", "L", "D">>, <<"N", "E", "W">>, TRUE),
           ParseMarkerPair(t, <<"[", "O", "L", "D", "]">>, <<"[", "N", "E", "W", "]">>, FALSE))

\* src/unnamed/part_001
parsePatchInputFW2(t) ==
    OrElse(CodePatcher("FW2", "parseSimpleFormat", <<t>>),
           CodePatcher("FW2", "parseLegacyFormat", <<t>>))

\* src/code-patcher.ts
parsePatchInputFW1(t) == CodePatcher("FW1", "parseLegacyFormat", <<t>>)

---------------------------------------------------------------------------
(* "FW2" src/unnamed/part_001 and "FW1" src/code-patcher.ts: one window size *)

DefaultMinConfidenceFW == <<7, 10>>

FormatMessageFW2 ==
    "Invalid patch format. Use OLD:\\n...\\n\\nNEW:\\n... or <<<<<<< SEARCH format"
NoMatchMessageFW2 ==
    "No matches found for search block (try lowering minConfidence or enabling fuzzy matching)"
FormatMessageFW1 ==
    "Invalid patch format. Expected <<<<<<< SEARCH ... ======= ... >>>>>>> REPLACE"
NoMatchMessageFW1 ==
    "No matches found for search block (try enabling fuzzy matching or lowering minConfidence)"

findMatchesFW(v, content, searchBlock, opts) ==
    LET defaultOptions == WithDefaults(DefaultMinConfidenceFW, opts)
        fileLines == Split(content)
        searchLines == Split(searchBlock)
    IN  sortByConfidence(WindowPass(v, fileLines, searchLines, Len(searchLines),
                                    defaultOptions.minConfidence, defaultOptions))

applyReplacementFW(content, match, replaceBlock) ==
    ReplaceLines(Split(content), match, Split(replaceBlock))

\* A faulty patch that reports a search without matches as a format error;
\* C21_ResultShape must tell it from the method.
patchFWOneMessage(v, content, patchInput, opts) ==
    LET parsed == CodePatcher(v, "parsePatchInput", <<patchInput>>)
        found == CodePatcher(v, "findMatches", <<content, parsed.search, opts>>)
    IN  IF IsNull(parsed) \/ Len(found) = 0
        THEN PatchResult(FALSE, << >>, IF v = "FW1" THEN FormatMessageFW1 ELSE FormatMessageFW2)
        ELSE PatchResult(TRUE, found, NoError)

patchFW(v, content, patchInput, opts) ==
    LET parsed == CodePatcher(v, "parsePatchInput", <<patchInput>>)
        found == CodePatcher(v, "findMatches", <<content, parsed.search, opts>>)
    IN  IF IsNull(parsed)
        THEN PatchResult(FALSE, << >>, IF v = "FW1" THEN FormatMessageFW1 ELSE FormatMessageFW2)
        ELSE IF Len(found) = 0
        THEN PatchResult(FALSE, << >>, IF v = "FW1" THEN NoMatchMessageFW1 ELSE NoMatchMessageFW2)
        ELSE PatchResult(TRUE, found, NoError)

applyPatchFW(v, content, patchInput, index, opts) ==
    LET result == CodePatcher(v, "patch", <<content, patchInput, opts>>)
        parsed == CodePatcher(v, "parsePatchInput", <<patchInput>>)
    IN  IF ~result.success \/ Len(result.matches) = 0 THEN Null
        ELSE IF index >= Len(result.matches) THEN Null
        ELSE CodePatcher(v, "applyReplacement",
                         <<content, ElementAt(result.matches, index), parsed.replace>>)

previewPatchFW(v, content, patchInput, index, opts) ==
    LET result == CodePatcher(v, "patch", <<content, patchInput, opts>>)
        match == ElementAt(result.matches, index)
        parsed == CodePatcher(v, "parsePatchInput", <<patchInput>>)
    IN  IF ~result.success \/ Len(result.matches) = 0 \/ index >= Len(result.matches)
        THEN Null
        ELSE Preview(Split(content), match, Split(parsed.replace),
                     IF IsUndefined(match) THEN 0 ELSE match.similarity)

---------------------------------------------------------------------------
(* "CA" src/unnamed/part_000: context-anchored windows *)

DefaultMinConfidenceCA == <<1, 2>>
NoMatchMessageCA == "No matches found. Try including more unique context lines."

\* linesMatch(line1, line2, fuzzy) of part_000 compares two single lines
lineMatchesCA(line1, line2, fuzzy) ==
    LET norm1 == Trim(line1)
        norm2 == Trim(line2)
    IN  \/ norm1 = norm2
        \/ fuzzy /\ RLe(<<9, 10>>, similarityRatio(norm1, norm2))

RECURSIVE PrefixFrom(_, _, _, _, _, _)
PrefixFrom(blockLines, fileLines, startIndex, fuzzy, i, maxCheck) ==
    IF i >= maxCheck THEN 0
    ELSE IF lineMatchesCA(blockLines[i + 1], fileLines[startIndex + i + 1], fuzzy)
    THEN 1 + PrefixFrom(blockLines, fileLines, startIndex, fuzzy, i + 1, maxCheck)
    ELSE 0

findCommonPrefix(blockLines, fileLines, startIndex, fuzzy) ==
    PrefixFrom(blockLines, fileLines, startIndex, fuzzy, 0,
               Min(Len(blockLines), Len(fileLines) - startIndex))

RECURSIVE SuffixFrom(_, _, _, _, _, _)
SuffixFrom(blockLines, fileLines, blockEnd, fileEnd, fuzzy, i) ==
    IF i > Min(blockEnd, fileEnd) THEN 0
    ELSE IF lineMatchesCA(blockLines[blockEnd - i + 1], fileLines[fileEnd - i + 1], fuzzy)
    THEN 1 + SuffixFrom(blockLines, fileLines, blockEnd, fileEnd, fuzzy, i + 1)
    ELSE 0

findCommonSuffix(blockLines, fileLines, endIndex, fuzzy) ==
    SuffixFrom(blockLines, fileLines, Len(blockLines) - 1, endIndex, fuzzy, 0)

\* text.replace(/\r\n/g, '\n').replace(/\r/g, '\n')
RECURSIVE normalizeLineEndingsFrom(_, _)
normalizeLineEndingsFrom(t, k) ==
    IF k > Len(t) THEN << >>
    ELSE IF t[k] = CR /\ k < Len(t) /\ t[k + 1] = NL
    THEN <<NL>> \o normalizeLineEndingsFrom(t, k + 2)
    ELSE <<IF t[k] = CR THEN NL ELSE t[k]>> \o normalizeLineEndingsFrom(t, k + 1)

normalizeLineEndings(t) == normalizeLineEndingsFrom(t, 1)

\* A faulty score without the two Math.min; C13_ScoresInUnitInterval must tell
\* it from the score of the code.
confidenceCAUnclamped(contextMatchLength, windowSize, blockLength) ==
    RAdd(RMul(Rat(contextMatchLength, blockLength), <<7, 10>>),
         RMul(Rat(windowSize, blockLength), <<3, 10>>))

\* A faulty score that rewards the lines a window lacks; C19_CloserLengthScoresHigher
\* must tell it from the score of the code.
confidenceCAShortfall(contextMatchLength, windowSize, blockLength) ==
    RMin(RInt(1),
         RAdd(RMul(RMin(RInt(1), Rat(contextMatchLength, blockLength)), <<7, 10>>),
              RMul(Rat(blockLength - windowSize, blockLength), <<3, 10>>)))

\* Math.min(1.0, contextRatio * 0.7 + sizeRatio * 0.3)
confidenceCA(contextMatchLength, windowSize, blockLength) ==
    RMin(RInt(1),
         RAdd(RMul(RMin(RInt(1), Rat(contextMatchLength, blockLength)), <<7, 10>>),
              RMul(Rat(windowSize, blockLength), <<3, 10>>)))

\* A faulty acceptance rule that is content with one matching context line;
\* C24_AcceptanceRule must tell it from the rule of the code.
PushedCAAnyContext(fileLines, blockLength, windowSize, fileStart, opts, prefixMatch, suffixMatch) ==
    IF /\ prefixMatch + suffixMatch >= 1
       /\ RLe(opts.minConfidence,
              confidenceCA(prefixMatch + suffixMatch, windowSize, blockLength))
    THEN <<MakeMatch(fileLines, fileStart, windowSize,
                     [confidence |->
                         confidenceCA(prefixMatch + suffixMatch, windowSize, blockLength),
                      similarity |->
                         confidenceCA(prefixMatch + suffixMatch, windowSize, blockLength)],
                     opts)
           @@ [contextMatchLength |-> prefixMatch + suffixMatch]>>
    ELSE << >>

\* A faulty push that counts no more context lines than the window has;
\* C26_ContextCountedTwice must tell it from the push of the code.
PushedCAWithinWindow(fileLines, blockLength, windowSize, fileStart, opts, prefixMatch, suffixMatch) ==
    IF /\ prefixMatch + suffixMatch >= 2
       /\ RLe(opts.minConfidence,
              confidenceCA(prefixMatch + suffixMatch, windowSize, blockLength))
    THEN <<MakeMatch(fileLines, fileStart, windowSize,
                     [confidence |->
                         confidenceCA(prefixMatch + suffixMatch, windowSize, blockLength),
                      similarity |->
                         confidenceCA(prefixMatch + suffixMatch, windowSize, blockLength)],
                     opts)
           @@ [contextMatchLength |-> Min(prefixMatch + suffixMatch, windowSize)]>>
    ELSE << >>

\* the match pushed, if any, for a window with its two context counts
PushedCA(fileLines, blockLength, windowSize, fileStart, opts, prefixMatch, suffixMatch) ==
    IF /\ prefixMatch + suffixMatch >= 2
       /\ (prefixMatch >= 1 \/ suffixMatch >= 1)
       /\ RLe(opts.minConfidence,
              confidenceCA(prefixMatch + suffixMatch, windowSize, blockLength))
    THEN <<MakeMatch(fileLines, fileStart, windowSize,
                     [confidence |->
                         confidenceCA(prefixMatch + suffixMatch, windowSize, blockLength),
                      similarity |->
                         confidenceCA(prefixMatch + suffixMatch, windowSize, blockLength)],
                     opts)
           @@ [contextMatchLength |-> prefixMatch + suffixMatch]>>
    ELSE << >>

\* the body of the fileStart loop for one window
CandidateCA(fileLines, blockLines, windowSize, fileStart, opts) ==
    PushedCA(fileLines, Len(blockLines), windowSize, fileStart, opts,
             findCommonPrefix(blockLines, fileLines, fileStart, opts.fuzzyMatch),
             findCommonSuffix(blockLines, fileLines, fileStart + windowSize - 1,
                              opts.fuzzyMatch))

RECURSIVE WindowStartsCA(_, _, _, _, _)
WindowStartsCA(fileLines, blockLines, windowSize, fileStart, opts) ==
    IF fileStart > Len(fileLines) - windowSize THEN << >>
    ELSE CandidateCA(fileLines, blockLines, windowSize, fileStart, opts)
            \o WindowStartsCA(fileLines, blockLines, windowSize, fileStart + 1, opts)

\* the windowSize loop, with its break once matches[0].confidence > 0.7
RECURSIVE WindowSizesCA(_, _, _, _, _)
WindowSizesCA(fileLines, blockLines, windowSize, found, opts) ==
    IF windowSize < Max(3, Len(blockLines) \div 2) THEN found
    ELSE LET now == found \o WindowStartsCA(fileLines, blockLines, windowSize, 0, opts)
         IN  IF Len(now) > 0 /\ RLt(<<7, 10>>, now[1].confidence) THEN now
             ELSE WindowSizesCA(fileLines, blockLines, windowSize - 1, now, opts)

\* uniqueMatches.sort((a, b) => |a.confidence - b.confidence| > 0.1
\*     ? b.confidence - a.confidence : b.contextMatchLength - a.contextMatchLength)
sortByConfidenceThenContext(ms) ==
    LET cmpNegative(a, b) ==
            LET diff == RSub(a.confidence, b.confidence)
            IN  IF RLt(<<1, 10>>, RMax(diff, RSub(RInt(0), diff)))
                THEN RLt(b.confidence, a.confidence)
                ELSE b.contextMatchLength < a.contextMatchLength
        before == [i \in 1..Len(ms), j \in 1..Len(ms) |-> cmpNegative(ms[i], ms[j])]
        order == SortOrder(Len(ms), before)
    IN  [r \in 1..Len(ms) |-> ms[order[r]]]

findMatchesCA(content, codeBlock, opts) ==
    LET defaultOptions == WithDefaults(DefaultMinConfidenceCA, opts)
        fileLines == Split(normalizeLineEndings(content))
        blockLines == Split(normalizeLineEndings(Trim(codeBlock)))
    IN  sortByConfidenceThenContext(uniqueMatches(
            WindowSizesCA(fileLines, blockLines, Len(blockLines), << >>, defaultOptions)))

applyReplacementCA(content, match, codeBlock) ==
    ReplaceLines(Split(normalizeLineEndings(content)), match,
                 Split(normalizeLineEndings(Trim(codeBlock))))

patchCA(content, codeBlock, opts) ==
    LET trimmedBlock == Trim(codeBlock)
        found == CodePatcher("CA", "findMatches", <<content, trimmedBlock, opts>>)
    IN  IF trimmedBlock = << >> THEN PatchResult(FALSE, << >>, EmptyBlockMessage)
        ELSE IF Len(found) = 0 THEN PatchResult(FALSE, << >>, NoMatchMessageCA)
        ELSE PatchResult(TRUE, found, NoError)

applyPatchCA(content, codeBlock, index, opts) ==
    LET result == CodePatcher("CA", "patch", <<content, codeBlock, opts>>)
    IN  IF ~result.success \/ Len(result.matches) = 0 THEN Null
        ELSE IF index >= Len(result.matches) THEN Null
        ELSE CodePatcher("CA", "applyReplacement",
                         <<content, ElementAt(result.matches, index), codeBlock>>)

previewPatchCA(content, codeBlock, index, opts) ==
    LET result == CodePatcher("CA", "patch", <<content, codeBlock, opts>>)
        match == ElementAt(result.matches, index)
    IN  IF ~result.success \/ Len(result.matches) = 0 \/ index >= Len(result.matches)
        THEN Null
        ELSE Preview(Split(normalizeLineEndings(content)), match,
                     Split(normalizeLineEndings(Trim(codeBlock))),
                     IF IsUndefined(match) THEN 0 ELSE match.contextMatchLength)

---------------------------------------------------------------------------
(* The class: its methods by snapshot.  calculateConfidence is the same     *)
(* method in "LT", "FW1" and "FW2"; "CA" has none.                           *)

CodePatcher(v, method, args) ==
    CASE method = "calculateConfidence" ->
            calculateConfidence(args[1], args[2], args[3])
      [] method = "parseSimpleFormat" -> parseSimpleFormat(args[1])
      [] method = "parseLegacyFormat" -> parseLegacyFormat(args[1])
      [] method = "parsePatchInput" ->
            IF v = "FW1" THEN parsePatchInputFW1(args[1]) ELSE parsePatchInputFW2(args[1])
      [] method = "findMatches" ->
            (CASE v = "LT" -> findMatchesLT(args[1], args[2], args[3])
               [] v = "CA" -> findMatchesCA(args[1], args[2], args[3])
               [] OTHER -> findMatchesFW(v, args[1], args[2], args[3]))
      [] method = "applyReplacement" ->
            (CASE v = "LT" -> applyReplacementLT(args[1], args[2], args[3])
               [] v = "CA" -> applyReplacementCA(args[1], args[2], args[3])
               [] OTHER -> applyReplacementFW(args[1], args[2], args[3]))
      [] method = "patch" ->
            (CASE v = "LT" -> patchLT(args[1], args[2], args[3])
               [] v = "CA" -> patchCA(args[1], args[2], args[3])
               [] OTHER -> patchFW(v, args[1], args[2], args[3]))
      [] method = "applyPatch" ->
            (CASE v = "LT" -> applyPatchLT(args[1], args[2], args[3], args[4])
               [] v = "CA" -> applyPatchCA(args[1], args[2], args[3], args[4])
               [] OTHER -> applyPatchFW(v, args[1], args[2], args[3], args[4]))
      [] method = "previewPatch" ->
            (CASE v = "LT" -> previewPatchLT(args[1], args[2], args[3], args[4])
               [] v = "CA" -> previewPatchCA(args[1], args[2], args[3], args[4])
               [] OTHER -> previewPatchFW(v, args[1], args[2], args[3], args[4]))

---------------------------------------------------------------------------
(* Inputs of the calls *)

MaxFileLines == 3
MaxBlockLines == 2
MaxFileLinesCA == 4
MaxBlockLinesCA == 4
MaxMatchIndex == 2

\* The lines the documents and blocks are made of: an empty line, a line, and
\* an indented line at edit distance 1 from it.
LineVocab == {<< >>, <<"a">>, <<SP, "a", "b">>}

TextsOfLines(vocab, minLines, maxLines) ==
    {Join(ls) : ls \in UNION {[1..n -> vocab] : n \in minLines..maxLines}}

Documents == TextsOfLines(LineVocab, 1, MaxFileLines)
Blocks == TextsOfLines(LineVocab, 1, MaxBlockLines)

\* "CA" scans windows of at least 3 lines: its documents and blocks are longer,
\* over two lines, the second one indented in the blocks' first line only.
LineVocabCA == {<<"a">>, <<"b">>}
DocumentsCA == TextsOfLines(LineVocabCA, 3, MaxFileLinesCA)
BlocksCA == TextsOfLines(LineVocabCA, 1, MaxBlockLinesCA)

\* PatchOptions objects: any subset of the fields may be given
MinConfidences == {<<0, 1>>, <<13, 20>>, <<1, 1>>}
PatchOptionChoices == {<< >>, [fuzzyMatch |-> FALSE], [minConfidence |-> <<0, 1>>]}
OptionChoices ==
    {<< >>, [fuzzyMatch |-> FALSE]}
    \cup {[minConfidence |-> c] : c \in MinConfidences}
    \cup {[fuzzyMatch |-> FALSE, minConfidence |-> c] : c \in MinConfidences}

\* A block of five lines whose best windows in ScenarioDocumentCA are shorter
\* than the block
ScenarioBlockCA == Join(<< <<"a">>, <<"a">>, <<"b">>, <<"a">>, <<"b">> >>)
ScenarioDocumentCA ==
    Join(<< <<"a">>, <<"b">>, <<"a">>, <<"b">>, <<"x">>,
            <<"a">>, <<"a">>, <<"b">>, <<"a">> >>)

\* Raw inputs that are empty or hold white space only
WhitespaceTexts == {<< >>, <<SP>>, <<NL>>, <<SP, NL, TAB>>}

\* Patch texts of the marker formats, built from a search and a replace body
MaxBodyLines == 1
SearchBodies == TextsOfLines(LineVocab, 1, MaxBodyLines)
ReplaceBodies == {<< >>, <<SP, "c">>}

Section(head, body) ==
    head \o <<NL>> \o (IF body = << >> THEN << >> ELSE body \o <<NL>>)

LegacyText(search, replace) ==
    Section(SearchMarker, search) \o Section(DividerMarker, replace) \o ReplaceMarker
SimpleText(search, replace) ==
    Section(<<"O", "L", "D", ":">>, search) \o <<"N", "E", "W", ":", NL>> \o replace
BracketText(search, replace) ==
    Section(<<"[", "O", "L", "D", "]">>, search)
        \o <<"[", "N", "E", "W", "]", NL>> \o replace

PatchTexts ==
    WhitespaceTexts \cup {<<"a">>}
    \cup {LegacyText(x, y) : x \in SearchBodies, y \in ReplaceBodies}
    \cup {SimpleText(x, y) : x \in SearchBodies, y \in ReplaceBodies}
    \cup {BracketText(<<"a">>, <<SP, "c">>)}

\* Replacement texts: lines that are empty, white space only, or indented
\* differently from the document; a line of the documents with another
\* indentation; three lines of the "CA" documents that end in CRLF
Replacements ==
    {<< >>, <<SP>>, <<SP, SP, "c", SP>>,
     <<NL, SP, SP, "c", SP>>,
     <<"c", NL, SP, NL, NL, TAB, "d">>,
     <<"c", NL, SP, NL>>,
     <<SP, SP, "a", "b", SP>>,
     <<"a", CR, NL, "b", CR, NL, "a">>}

\* The documents the replacements are applied to
MaxApplyLines == 2
ApplyDocuments == TextsOfLines(LineVocab, 1, MaxApplyLines)
ApplyBlocks == TextsOfLines(LineVocab, 1, MaxApplyLines)

\* Texts given to parsePatchInput: the patch texts, the three markers of the
\* SEARCH/REPLACE format in every order, the two headers of the OLD/NEW formats
\* in reverse order, one marker missing, and two formats one after the other
MarkerOrders ==
    {<<SearchMarker, DividerMarker, ReplaceMarker>>,
     <<SearchMarker, ReplaceMarker, DividerMarker>>,
     <<DividerMarker, SearchMarker, ReplaceMarker>>,
     <<DividerMarker, ReplaceMarker, SearchMarker>>,
     <<ReplaceMarker, SearchMarker, DividerMarker>>,
     <<ReplaceMarker, DividerMarker, SearchMarker>>,
     <<<<"N", "E", "W", ":">>, <<"O", "L", "D", ":">>, << >> >>,
     <<<<"[", "N", "E", "W", "]">>, <<"[", "O", "L", "D", "]">>, << >> >>}
MarkersText(order, first, second) ==
    Section(order[1], first) \o Section(order[2], second) \o order[3]
CombinedSearches == {<<"a">>, <<SP, "a", "b">>}
CombinedReplaces == {<<SP, "c">>}
CombinedTexts ==
    UNION {{f \o <<NL>> \o g, g \o <<NL>> \o f} :
             f \in UNION {{SimpleText(x, y), BracketText(x, y), LegacyText(x, y)} :
                             x \in CombinedSearches, y \in CombinedReplaces},
             g \in {SimpleText(<<"b">>, <<"d">>), BracketText(<<"b">>, <<"d">>),
                    LegacyText(<<"b">>, <<"d">>)}}
ParseTexts ==
    PatchTexts
    \cup {MarkersText(o, x, y) : o \in MarkerOrders, x \in SearchBodies, y \in ReplaceBodies}
    \cup {Section(SearchMarker, <<"a">>) \o DividerMarker,
          Section(DividerMarker, <<"a">>) \o ReplaceMarker,
          <<"O", "L", "D", ":", NL, "a">>, <<"N", "E", "W", ":", NL, "a">>}
    \cup CombinedTexts

\* Strings compared by levenshteinDistance and similarityRatio: every string
\* over two letters up to MaxStringLen, and the pair of the documented example
MaxStringLen == 4
Strings ==
    UNION {[1..n -> {"a", "b"}] : n \in 0..MaxStringLen}
    \cup {<<"k", "i", "t", "t", "e", "n">>, <<"s", "i", "t", "t", "i", "n", "g">>}

Variants == {"LT", "CA", "FW1", "FW2"}
BlockVariants == {"LT", "CA"}
MarkerVariants == {"FW1", "FW2"}
\* findMatches of "FW1" is, line for line, that of "FW2"
FindVariants == {"LT", "CA", "FW2"}

\* The text a, b, a on three lines that end in CRLF, and in a bare CR
CarriageReturnTexts ==
    {<<"a", CR, NL, "b", CR, NL, "a">>, <<"a", CR, "b", CR, "a">>}
DocumentsOf(v) ==
    (IF v = "CA" THEN DocumentsCA \cup {ScenarioDocumentCA} ELSE Documents)
        \cup CarriageReturnTexts
BlocksOf(v) ==
    (IF v = "CA" THEN BlocksCA \cup {ScenarioBlockCA} ELSE Blocks)
        \cup CarriageReturnTexts
RawInputsOf(v) ==
    IF v \in MarkerVariants THEN PatchTexts ELSE BlocksOf(v) \cup WhitespaceTexts
ApplyDocumentsCA == TextsOfLines(LineVocabCA, 3, MaxApplyLines + 1)
ApplyDocumentsOf(v) ==
    IF v = "CA" THEN ApplyDocumentsCA \cup CarriageReturnTexts ELSE ApplyDocuments
ApplyBlocksOf(v) == IF v = "CA" THEN ApplyDocumentsCA ELSE ApplyBlocks
\* The patch texts applied: malformed ones, and one of each format
ApplyPatchTexts ==
    {<< >>, <<"a">>,
     LegacyText(<<"a">>, <<SP, "c">>),
     LegacyText(<< >>, <<"c">>),
     SimpleText(<<SP, "a", "b">>, <<"c", NL, NL, SP, "d">>),
     BracketText(<<"a">>, << >>)}
ApplyInputsOf(v) ==
    IF v \in MarkerVariants THEN ApplyPatchTexts ELSE ApplyBlocksOf(v) \cup {<< >>, <<SP>>}
MatchIndexes == (0 - 1)..MaxMatchIndex

---------------------------------------------------------------------------
(* Inputs and initial state of the commands of the extension *)

\* import { CodePatcher } from './codePatcher': the class of src/src/codePatcher.ts
EditorVariant == "LT"

\* getOptions() with the default settings
EditorOptions == [fuzzyMatch |-> TRUE, minConfidence |-> <<3, 5>>, contextLines |-> 2]

\* The files findFiles returns, in its order
Uris == <<"one.ts", "two.ts">>
UriSet == {Uris[k] : k \in 1..Len(Uris)}

\* The texts a file may hold: empty, one line, the line below an empty line,
\* the line twice, the line below an indented line that resembles it, and a
\* line that resembles that one
EditorTexts ==
    {<< >>, <<"a">>, <<NL, "a">>, <<"a", NL, "a">>, <<SP, "a", "b", NL, "a">>,
     <<"a", "b", "c">>}

\* The blocks given to the commands; the input box also takes white space
WorkspaceBlocks == {<<"a">>, <<"a", "b">>}
EditorBlocks == WorkspaceBlocks \cup {<<SP>>}

\* tieBreakDelta, default 0.03
TieBreakDelta == <<3, 100>>

NoEdit == [kind |-> "none"]

InitEditor ==
    /\ documents = [u \in UriSet |-> <<NL, "a">>]
    /\ command = "none"
    /\ pc = "idle"
    /\ commandBlock = << >>
    /\ autoApply = FALSE
    /\ candidates = << >>
    /\ checked = 0
    /\ token = "none"
    /\ target = Null
    /\ shown = Null
    /\ answer = "none"
    /\ edit = NoEdit

---------------------------------------------------------------------------
(* The calls.  The engine keeps no state between calls: a call starts from  *)
(* the idle state, and Return discards what it produced.                    *)

Init ==
    /\ variant = "none"
    /\ op = "idle"
    /\ fileContent = << >>
    /\ input = << >>
    /\ replacement = << >>
    /\ options = << >>
    /\ matchIndex = 0
    /\ matches = << >>
    /\ patchResult = Null
    /\ output = Null
    /\ InitEditor

FindMatches ==
    /\ op = "idle"
    /\ \E v \in FindVariants :
       \E d \in DocumentsOf(v), b \in BlocksOf(v), o \in OptionChoices :
          /\ variant' = v
          /\ op' = "findMatches"
          /\ fileContent' = d
          /\ input' = b
          /\ options' = o
          /\ matches' = CodePatcher(v, "findMatches", <<d, b, o>>)
    /\ UNCHANGED <<replacement, matchIndex, patchResult, output>>
    /\ UNCHANGED editorVars

Patch ==
    /\ op = "idle"
    /\ \E v \in Variants :
       \E d \in DocumentsOf(v), raw \in RawInputsOf(v), o \in PatchOptionChoices :
          /\ variant' = v
          /\ op' = "patch"
          /\ fileContent' = d
          /\ input' = raw
          /\ options' = o
          /\ patchResult' = CodePatcher(v, "patch", <<d, raw, o>>)
    /\ UNCHANGED <<replacement, matchIndex, matches, output>>
    /\ UNCHANGED editorVars

\* applyReplacement(fileContent, findMatches(fileContent, block)[k], replacement)
\* applyReplacement with one of the matches found by findMatches
ApplyReplacementOf(v, d, b, found) ==
    \E r \in Replacements, k \in 0..MaxMatchIndex :
       /\ variant' = v
       /\ op' = "applyReplacement"
       /\ fileContent' = d
       /\ input' = b
       /\ replacement' = r
       /\ matches' = found
       /\ k < Len(found)
       /\ matchIndex' = k
       /\ output' = CodePatcher(v, "applyReplacement", <<d, found[k + 1], r>>)

ApplyReplacement ==
    /\ op = "idle"
    /\ \E v \in FindVariants :
       \E d \in ApplyDocumentsOf(v), b \in ApplyBlocksOf(v) :
          ApplyReplacementOf(v, d, b, CodePatcher(v, "findMatches", <<d, b, << >> >>))
    /\ UNCHANGED <<options, patchResult>>
    /\ UNCHANGED editorVars

ApplyPatch ==
    /\ op = "idle"
    /\ \E v \in Variants :
       \E d \in ApplyDocumentsOf(v), raw \in ApplyInputsOf(v), k \in MatchIndexes :
          /\ variant' = v
          /\ op' = "applyPatch"
          /\ fileContent' = d
          /\ input' = raw
          /\ matchIndex' = k
          /\ patchResult' = CodePatcher(v, "patch", <<d, raw, << >> >>)
          /\ output' = CodePatcher(v, "applyPatch", <<d, raw, k, << >> >>)
    /\ UNCHANGED <<replacement, options, matches>>
    /\ UNCHANGED editorVars

PreviewPatch ==
    /\ op = "idle"
    /\ \E v \in Variants :
       \E d \in ApplyDocumentsOf(v), raw \in ApplyInputsOf(v), k \in MatchIndexes :
          /\ variant' = v
          /\ op' = "previewPatch"
          /\ fileContent' = d
          /\ input' = raw
          /\ matchIndex' = k
          /\ patchResult' = CodePatcher(v, "patch", <<d, raw, << >> >>)
          /\ output' = CodePatcher(v, "previewPatch", <<d, raw, k, << >> >>)
    /\ UNCHANGED <<replacement, options, matches>>
    /\ UNCHANGED editorVars

\* CodePatcher.parsePatchInput(input) of a marker-parsing snapshot
ParsePatchInput ==
    /\ op = "idle"
    /\ \E v \in MarkerVariants :
       \E t \in ParseTexts :
          /\ variant' = v
          /\ op' = "parsePatchInput"
          /\ input' = t
          /\ output' = CodePatcher(v, "parsePatchInput", <<t>>)
    /\ UNCHANGED <<fileContent, replacement, options, matchIndex, matches, patchResult>>
    /\ UNCHANGED editorVars

\* CodePatcher.similarityRatio(str1, str2), with the distance it computes
SimilarityRatio ==
    /\ op = "idle"
    /\ \E v \in Variants :
       \E str1 \in Strings, str2 \in Strings :
          /\ variant' = v
          /\ op' = "similarityRatio"
          /\ fileContent' = str1
          /\ input' = str2
          /\ output' = [kind |-> "number",
                        distance |-> levenshteinDistance(str1, str2),
                        ratio |-> similarityRatio(str1, str2)]
    /\ UNCHANGED <<replacement, options, matchIndex, matches, patchResult>>
    /\ UNCHANGED editorVars

Return ==
    /\ op # "idle"
    /\ variant' = "none"
    /\ op' = "idle"
    /\ fileContent' = << >>
    /\ input' = << >>
    /\ replacement' = << >>
    /\ options' = << >>
    /\ matchIndex' = 0
    /\ matches' = << >>
    /\ patchResult' = Null
    /\ output' = Null
    /\ UNCHANGED editorVars

NextFind == FindMatches \/ Return
SpecFind == Init /\ [][NextFind]_vars

NextPatch == Patch \/ Return
SpecPatch == Init /\ [][NextPatch]_vars

NextParse == ParsePatchInput \/ Return
SpecParse == Init /\ [][NextParse]_vars

NextDistance == SimilarityRatio \/ Return
SpecDistance == Init /\ [][NextDistance]_vars

NextApply == ApplyReplacement \/ ApplyPatch \/ PreviewPatch \/ Return
SpecApply == Init /\ [][NextApply]_vars

\* The calls of findMatches of one snapshot
FindMatchesLT == variant' = "LT" /\ FindMatches
NextFindLT == FindMatchesLT \/ Return
SpecFindLT == Init /\ [][NextFindLT]_vars

FindMatchesCA == variant' = "CA" /\ FindMatches
NextFindCA == FindMatchesCA \/ Return
SpecFindCA == Init /\ [][NextFindCA]_vars

---------------------------------------------------------------------------
(* The commands of the extension, src/src/extension.ts.  A command runs     *)
(* from one await to the next in one step; between two steps the user       *)
(* answers, and anything else may change the documents.                     *)

\* WorkspaceCandidate; the editor's pick items carry matchIndex and no preview
Candidate(uri, text, match, index, preview) ==
    [uri |-> uri, fileContent |-> text, match |-> match, matchIndex |-> index,
     preview |-> preview]

\* matches.map((match, idx) => ({ ..., matchIndex: idx }))
Items(uri, text, found) ==
    [k \in 1..Len(found) |-> Candidate(uri, text, found[k], k - 1, Null)]

\* The end of applyPatchAtMatch: nothing is edited when applyPatch returned
\* null or the empty text, else the whole document is replaced by the text
\* applyPatch returned, which rewrites the range of result.matches[index]
EditIssued(uri, index, result, patchedContent) ==
    IF patchedContent.kind = "text" /\ patchedContent.text # << >>
    THEN /\ documents' = [documents EXCEPT ![uri] = patchedContent.text]
         /\ edit' = [kind |-> "edit", uri |-> uri,
                     startLine |-> result.matches[index + 1].startLine,
                     endLine |-> result.matches[index + 1].endLine]
    ELSE /\ UNCHANGED documents
         /\ edit' = [kind |-> "failed"]

\* applyPatchAtMatch(editor, codeBlock, matchIndex, options, matchInfo): reads
\* the document as it is now and has applyPatch search it again
applyPatchAtMatch(uri, block, index) ==
    EditIssued(uri, index,
               CodePatcher(EditorVariant, "patch", <<documents[uri], block, EditorOptions>>),
               CodePatcher(EditorVariant, "applyPatch",
                           <<documents[uri], block, index, EditorOptions>>))

\* applyPatchToEditor once patch has returned result
PatchedInEditor(uri, block, auto, result) ==
    /\ command' = "applyPatch"
    /\ commandBlock' = block
    /\ autoApply' = auto
    /\ IF ~result.success \/ Len(result.matches) = 0
       THEN /\ pc' = "done"
            /\ candidates' = << >>
            /\ target' = Null
            /\ shown' = Null
            /\ UNCHANGED <<documents, edit>>
       ELSE /\ candidates' = Items(uri, documents[uri], result.matches)
            /\ IF Len(result.matches) = 1
               THEN /\ target' = Candidate(uri, documents[uri], result.matches[1], 0, Null)
                    /\ IF auto
                       THEN /\ pc' = "done"
                            /\ shown' = Null
                            /\ applyPatchAtMatch(uri, block, 0)
                       ELSE /\ pc' = "dialog"
                            /\ shown' = CodePatcher(EditorVariant, "previewPatch",
                                            <<documents[uri], block, 0, EditorOptions>>)
                            /\ UNCHANGED <<documents, edit>>
               ELSE /\ pc' = "pick"
                    /\ target' = Null
                    /\ shown' = Null
                    /\ UNCHANGED <<documents, edit>>
    /\ UNCHANGED <<checked, token, answer>>

\* The command aiCodePatcher.applyPatch on the active editor, up to its
\* first await: the modal dialog, the pick list of handleMultipleMatches, or
\* the edit of a single match when autoApplySingleMatch is set
ApplyPatchToEditor ==
    /\ pc = "idle"
    /\ \E uri \in UriSet, block \in EditorBlocks, auto \in BOOLEAN :
          PatchedInEditor(uri, block, auto,
              CodePatcher(EditorVariant, "patch", <<documents[uri], block, EditorOptions>>))
    /\ UNCHANGED engineVars

\* handleMultipleMatches after an item of the pick list was selected: the
\* preview is made from the document as it is now
HandleMultipleMatches ==
    /\ pc = "pick"
    /\ command = "applyPatch"
    /\ \E k \in 1..Len(candidates) :
          /\ target' = candidates[k]
          /\ shown' = CodePatcher(EditorVariant, "previewPatch",
                          <<documents[candidates[k].uri], commandBlock,
                            candidates[k].matchIndex, EditorOptions>>)
    /\ pc' = "dialog"
    /\ answer' = "selected"
    /\ UNCHANGED <<documents, command, commandBlock, autoApply, candidates, checked,
                   token, edit>>
    /\ UNCHANGED engineVars

\* if (!selected) return, in handleMultipleMatches and applyPatchAcrossWorkspace
DismissQuickPick ==
    /\ pc = "pick"
    /\ pc' = "done"
    /\ answer' = "pickDismissed"
    /\ UNCHANGED <<documents, command, commandBlock, autoApply, candidates, checked,
                   token, target, shown, edit>>
    /\ UNCHANGED engineVars

\* The modal dialog answered 'Apply': applyPatchToEditor and
\* handleMultipleMatches call applyPatchAtMatch, applyPatchAcrossWorkspace
\* calls openAndApply, which first awaits the document and its editor
ChooseApply ==
    /\ pc = "dialog"
    /\ answer' = "Apply"
    /\ IF command = "applyPatch"
       THEN /\ pc' = "done"
            /\ applyPatchAtMatch(target.uri, commandBlock, target.matchIndex)
       ELSE /\ pc' = "opening"
            /\ UNCHANGED <<documents, edit>>
    /\ UNCHANGED <<command, commandBlock, autoApply, candidates, checked, token,
                   target, shown>>
    /\ UNCHANGED engineVars

\* The modal dialog answered 'Cancel', or closed without an answer
ChooseCancel ==
    /\ pc = "dialog"
    /\ pc' = "done"
    /\ \E a \in {"Cancel", "dialogDismissed"} : answer' = a
    /\ UNCHANGED <<documents, command, commandBlock, autoApply, candidates, checked,
                   token, target, shown, edit>>
    /\ UNCHANGED engineVars

\* An insertion sort by the comparator of candidates.sort: confidence
\* descending where it differs by more than 1e-6, then contextMatchLength
\* descending, which no match of this CodePatcher has (?? 0)
RanksBefore(a, b) ==
    RLt(<<1, 1000000>>, RSub(a.match.confidence, b.match.confidence))

RECURSIVE SortCandidates(_)
SortCandidates(cs) ==
    IF Len(cs) <= 1 THEN cs
    ELSE LET rest == SortCandidates(Tail(cs))
             place == MinOf({k \in 1..(Len(rest) + 1) :
                                k = Len(rest) + 1 \/ ~RanksBefore(rest[k], Head(cs))})
         IN  Slice(rest, 0, place - 1) \o <<Head(cs)>> \o Slice(rest, place - 1, Len(rest))

\* haveCloseTie
HaveCloseTie(sorted) ==
    /\ Len(sorted) >= 2
    /\ RLt(RSub(sorted[1].match.confidence, sorted[2].match.confidence), TieBreakDelta)

\* A faulty condition that also applies a clear winner among several
\* candidates without asking; C22_ConfirmationGating must tell it from the
\* condition of the code.
AutoAppliesClearWinner(sorted, auto) == ~HaveCloseTie(sorted) /\ auto

\* !haveCloseTie && (candidates.length === 1 && autoApplySingleMatch)
AutoApplies(sorted, auto) == ~HaveCloseTie(sorted) /\ (Len(sorted) = 1 /\ auto)

\* applyPatchAcrossWorkspace after the loop over the files
AfterScan(found, cancelled) ==
    IF cancelled \/ Len(found) = 0
    THEN /\ pc' = "done"
         /\ candidates' = found
         /\ target' = Null
    ELSE /\ candidates' = SortCandidates(found)
         /\ IF AutoApplies(SortCandidates(found), autoApply)
            THEN /\ pc' = "opening"
                 /\ target' = SortCandidates(found)[1]
            ELSE /\ pc' = "pick"
                 /\ target' = Null

\* The commands aiCodePatcher.applyPatchFromClipboard and
\* aiCodePatcher.applyPatchFromSelection, up to the first file of the scan
ApplyPatchAcrossWorkspace ==
    /\ pc = "idle"
    /\ \E block \in WorkspaceBlocks, auto \in BOOLEAN :
          /\ commandBlock' = block
          /\ autoApply' = auto
    /\ command' = "applyPatchAcrossWorkspace"
    /\ pc' = "scan"
    /\ UNCHANGED <<documents, candidates, checked, token, target, shown, answer, edit>>
    /\ UNCHANGED engineVars

\* What the scan holds after the file uri with the text it read
Scanned(found, uri, text, result, preview) ==
    IF text # << >> /\ result.success /\ Len(result.matches) > 0
    THEN Append(found, Candidate(uri, text, result.matches[1], 0, preview))
    ELSE found

\* One turn of the loop over the files, from the document opened to the next
\* await: the file is searched, and the loop goes on unless this was the last
\* file or the token is cancelled
ScanFile ==
    /\ pc = "scan"
    /\ checked' = checked + 1
    /\ IF checked + 1 < Len(Uris) /\ token = "none"
       THEN /\ pc' = "scan"
            /\ candidates' =
                  Scanned(candidates, Uris[checked + 1], documents[Uris[checked + 1]],
                      CodePatcher(EditorVariant, "patch",
                          <<documents[Uris[checked + 1]], commandBlock, EditorOptions>>),
                      CodePatcher(EditorVariant, "previewPatch",
                          <<documents[Uris[checked + 1]], commandBlock, 0, EditorOptions>>))
            /\ UNCHANGED target
       ELSE AfterScan(
                Scanned(candidates, Uris[checked + 1], documents[Uris[checked + 1]],
                    CodePatcher(EditorVariant, "patch",
                        <<documents[Uris[checked + 1]], commandBlock, EditorOptions>>),
                    CodePatcher(EditorVariant, "previewPatch",
                        <<documents[Uris[checked + 1]], commandBlock, 0, EditorOptions>>)),
                token # "none")
    /\ UNCHANGED <<documents, command, commandBlock, autoApply, token, shown, answer, edit>>
    /\ UNCHANGED engineVars

\* The user cancels the progress notification, which stays up until the
\* command ends; the token is only read during the scan
CancelScan ==
    /\ command = "applyPatchAcrossWorkspace"
    /\ pc \in {"scan", "pick", "dialog", "opening"}
    /\ token = "none"
    /\ token' = IF pc = "scan" THEN "duringScan" ELSE "afterScan"
    /\ UNCHANGED <<documents, command, pc, commandBlock, autoApply, candidates, checked,
                   target, shown, answer, edit>>
    /\ UNCHANGED engineVars

\* A candidate of the pick list of applyPatchAcrossWorkspace is selected; its
\* preview was made during the scan
ChooseCandidate ==
    /\ pc = "pick"
    /\ command = "applyPatchAcrossWorkspace"
    /\ \E k \in 1..Min(Len(candidates), 30) :
          /\ target' = candidates[k]
          /\ shown' = IF candidates[k].preview # Null THEN candidates[k].preview
                      ELSE CodePatcher(EditorVariant, "previewPatch",
                               <<candidates[k].fileContent, commandBlock,
                                 candidates[k].matchIndex, EditorOptions>>)
    /\ pc' = "dialog"
    /\ answer' = "selected"
    /\ UNCHANGED <<documents, command, commandBlock, autoApply, candidates, checked,
                   token, edit>>
    /\ UNCHANGED engineVars

\* openAndApply(candidate, codeBlock, options) once the document is shown
OpenAndApply ==
    /\ pc = "opening"
    /\ pc' = "done"
    /\ applyPatchAtMatch(target.uri, commandBlock, target.matchIndex)
    /\ UNCHANGED <<command, commandBlock, autoApply, candidates, checked, token,
                   target, shown, answer>>
    /\ UNCHANGED engineVars

\* Something other than the command changes the text of a document
DocumentChanges ==
    /\ \E uri \in UriSet, text \in EditorTexts :
          /\ text # documents[uri]
          /\ documents' = [documents EXCEPT ![uri] = text]
    /\ UNCHANGED <<command, pc, commandBlock, autoApply, candidates, checked, token,
                   target, shown, answer, edit>>
    /\ UNCHANGED engineVars

\* The command has returned
CommandReturns ==
    /\ pc = "done"
    /\ command' = "none"
    /\ pc' = "idle"
    /\ commandBlock' = << >>
    /\ autoApply' = FALSE
    /\ candidates' = << >>
    /\ checked' = 0
    /\ token' = "none"
    /\ target' = Null
    /\ shown' = Null
    /\ answer' = "none"
    /\ edit' = NoEdit
    /\ UNCHANGED documents
    /\ UNCHANGED engineVars

NextEditor ==
    \/ ApplyPatchToEditor
    \/ HandleMultipleMatches
    \/ DismissQuickPick
    \/ ChooseApply
    \/ ChooseCancel
    \/ ApplyPatchAcrossWorkspace
    \/ ScanFile
    \/ CancelScan
    \/ ChooseCandidate
    \/ OpenAndApply
    \/ DocumentChanges
    \/ CommandReturns
SpecEditor == Init /\ [][NextEditor]_vars

---------------------------------------------------------------------------
(* Properties of findMatches *)

One == <<1, 1>>
Zero == <<0, 1>>

\* The lines of fileLines from offset k on equal blockLines, line by line,
\* once both are trimmed
ExactWindow(fileLines, k, blockLines) ==
    /\ k + Len(blockLines) <= Len(fileLines)
    /\ \A j \in 1..Len(blockLines) : Trim(fileLines[k + j]) = Trim(blockLines[j])

\* ms holds a match for the lines [from, to)
Returned(ms, from, to) ==
    \E i \in 1..Len(ms) : ms[i].startLine = from /\ ms[i].endLine = to

\* The block lines that findMatches of snapshot v slides over the document
SearchedLines(v, block) ==
    IF v = "FW2" THEN Split(block)
    ELSE IF v = "CA" THEN Split(normalizeLineEndings(Trim(block)))
    ELSE Split(Trim(block))

\* C1, as claimed: in "LT" and "CA" with default options, whenever the lines
\* of the document at offsets k .. k+N-1 equal the N lines of the block once
\* trimmed, findMatches returns a match [k, k+N) of confidence 1.0, and no
\* match of lower confidence is ranked before it.
C1_ExactMatchRanksFirst ==
    (op = "findMatches" /\ variant \in {"LT", "CA"} /\ options = << >>) =>
        \A k \in 0..Len(Split(fileContent)) :
            ExactWindow(Split(fileContent), k, Split(input)) =>
                \E i \in 1..Len(matches) :
                    /\ matches[i].startLine = k
                    /\ matches[i].endLine = k + Len(Split(input))
                    /\ matches[i].confidence = One
                    /\ \A j \in 1..(i - 1) : matches[j].confidence = One

BestFirst ==
    \A i \in 1..Len(matches) : RLe(matches[i].confidence, matches[1].confidence)

\* C7, as claimed: in every variant the match at index 0 has a confidence
\* greater than or equal to that of every other match returned.
C7_BestFirstEveryVariant == op = "findMatches" => BestFirst

\* C7, amended: in the fixed-window and length-tolerant variants the match at
\* index 0 has a confidence greater than or equal to that of every other
\* match returned, for every document, block and options.
C7_BestFirst == (op = "findMatches" /\ variant \in {"LT", "FW2"}) => BestFirst

\* A later window outranks an earlier, weaker one
C7_Witness ==
    /\ op = "findMatches"
    /\ variant = "LT"
    /\ Len(matches) >= 2
    /\ matches[2].startLine < matches[1].startLine
    /\ RLt(matches[2].confidence, matches[1].confidence)

\* The 1-based numbers of the document lines equal to the one-line block
EqualLines ==
    {k \in 1..Len(Split(fileContent)) : Trim(Split(fileContent)[k]) = Trim(input)}

\* A one-line block equal to exactly two lines of the document, every other
\* line being less than half similar to it; default options
AmbiguityScenario ==
    /\ op = "findMatches"
    /\ variant \in {"LT", "FW2"}
    /\ options = << >>
    /\ Len(Split(input)) = 1
    /\ Trim(input) # << >>
    /\ Cardinality(EqualLines) = 2
    /\ \A k \in (1..Len(Split(fileContent))) \ EqualLines :
          RLt(similarityRatio(Trim(Split(fileContent)[k]), Trim(input)), <<1, 2>>)

\* C8, as claimed: on the ambiguity scenario the fixed-window and the
\* length-tolerant variant return exactly two matches, the one-line ranges at
\* the two equal lines, of the same confidence, by increasing startLine.
C8_ExactlyTwoMatches ==
    AmbiguityScenario =>
        /\ Len(matches) = 2
        /\ {matches[1].startLine + 1, matches[2].startLine + 1} = EqualLines
        /\ matches[1].endLine = matches[1].startLine + 1
        /\ matches[2].endLine = matches[2].startLine + 1
        /\ matches[1].confidence = matches[2].confidence
        /\ matches[1].startLine < matches[2].startLine

FuzzyOff == "fuzzyMatch" \in DOMAIN options /\ ~options.fuzzyMatch

\* Every match returned is an exact normalized match of confidence 1.0
AllExact ==
    \A i \in 1..Len(matches) :
        /\ matches[i].confidence = One
        /\ matches[i].endLine - matches[i].startLine = Len(SearchedLines(variant, input))
        /\ ExactWindow(Split(fileContent), matches[i].startLine,
                       SearchedLines(variant, input))

WindowConfidenceLT(i, len) ==
    calculateConfidence(Slice(Split(fileContent), i, i + len),
                        SearchedLines("LT", input),
                        WithDefaults(<<3, 5>>, options)).confidence
WindowLengthsLT ==
    {len \in 1..Len(Split(fileContent)) :
        Abs(len - Len(SearchedLines("LT", input))) <= 1}

\* The confidences of the windows of len lines, by start offset, in "LT"
ScoresLT(fileLines, blockLines, opts, len) ==
    [k \in 1..Max(0, Len(fileLines) - len + 1) |->
        calculateConfidence(Slice(fileLines, k - 1, k - 1 + len),
                            blockLines, opts).confidence]

WindowsDecided(scores, len, threshold) ==
    /\ \A k \in 1..Len(scores) :
          Returned(matches, k - 1, k - 1 + len) <=> RLe(threshold, scores[k])
    /\ \A m \in 1..Len(matches) :
          matches[m].endLine - matches[m].startLine = len =>
             matches[m].confidence = scores[matches[m].startLine + 1]

ThresholdDecidesLT(fileLines, blockLines, opts) ==
    /\ \A len \in WindowLengthsLT :
          WindowsDecided(ScoresLT(fileLines, blockLines, opts, len), len,
                         IF len = Len(blockLines)
                            THEN opts.minConfidence
                            ELSE RAdd(opts.minConfidence, <<1, 20>>))
    /\ \A m \in 1..Len(matches) :
          matches[m].endLine - matches[m].startLine \in WindowLengthsLT

\* C10: in "LT" a window of N lines is returned iff its confidence is at least
\* minConfidence, a window of N-1 or N+1 lines iff its confidence is at least
\* minConfidence + 0.05, and nothing else is returned.
C10_ThresholdDecides ==
    (op = "findMatches" /\ variant = "LT") =>
        ThresholdDecidesLT(Split(fileContent), SearchedLines("LT", input),
                           WithDefaults(<<3, 5>>, options))

\* A longer window is returned while a shorter one whose confidence lies
\* between minConfidence and minConfidence + 0.05 is dropped
C10_Witness ==
    /\ op = "findMatches"
    /\ variant = "LT"
    /\ "minConfidence" \in DOMAIN options
    /\ options.minConfidence = <<13, 20>>
    /\ \E k \in 1..Len(matches) :
          matches[k].endLine - matches[k].startLine
              = Len(SearchedLines("LT", input)) + 1
    /\ \E len \in WindowLengthsLT \ {Len(SearchedLines("LT", input))} :
          \E i \in 0..(Len(Split(fileContent)) - len) :
             /\ ~Returned(matches, i, i + len)
             /\ RLe(<<13, 20>>, WindowConfidenceLT(i, len))

---------------------------------------------------------------------------
(* Properties of patch *)

\* C3, as claimed: in every variant, patch(document, raw) with raw empty or
\* made of whitespace only returns success = false, no matches and the
\* empty-block message (not the format or the no-match message).
C3_EmptyInputError ==
    (op = "patch" /\ Trim(input) = << >>) =>
        patchResult = PatchResult(FALSE, << >>, EmptyBlockMessage)

\* What parsePatchInput of the marker-parsing snapshot v makes of the text
ParsedInput(v, t) ==
    IF v = "FW1" THEN parsePatchInputFW1(t) ELSE parsePatchInputFW2(t)

\* C4, as claimed: in the marker-parsing variants, whenever the input parses
\* to a PatchInput whose search body is empty, patch returns success = false,
\* an error and no matches, whatever the document.
C4_EmptySearchFails ==
    (/\ op = "patch"
     /\ variant \in MarkerVariants
     /\ ~IsNull(ParsedInput(variant, input))
     /\ ParsedInput(variant, input).search = << >>)
    => /\ ~patchResult.success
       /\ patchResult.matches = << >>
       /\ patchResult.error # NoError

---------------------------------------------------------------------------
(* Properties of applyReplacement, applyPatch and previewPatch *)

\* The lines of fileLines from offset s on are those of blockLines, verbatim
VerbatimAt(fileLines, s, blockLines) ==
    /\ s + Len(blockLines) <= Len(fileLines)
    /\ \A j \in 1..Len(blockLines) : fileLines[s + j] = blockLines[j]

IsBlank(line) == \A c \in 1..Len(line) : IsWhitespace(line[c])

\* The longest prefix of the line made of whitespace
LeadingWhitespace(line) ==
    Slice(line, 0, MaxOf({n \in 0..Len(line) : \A c \in 1..n : IsWhitespace(line[c])}))

\* Blank lines as they are, every other line trimmed and put behind indent
Reindented(lines, indent) ==
    [k \in 1..Len(lines) |->
        IF IsBlank(lines[k]) THEN lines[k] ELSE indent \o Trim(lines[k])]

\* The document with its lines [s, e) replaced by the given lines
Replaced(fileLines, s, e, lines) ==
    Join(Slice(fileLines, 0, s) \o lines \o Slice(fileLines, e, Len(fileLines)))

\* C2, as claimed: for every block taken verbatim from the document at lines
\* [s, e) and every replacement, applyReplacement with the first match of
\* findMatches returns the document with exactly the lines [s, e) replaced by
\* the lines of the replacement, each non-blank one re-indented to the leading
\* whitespace of line s.
C2_RoundTripEveryBlock ==
    (op = "applyReplacement" /\ variant \in {"LT", "FW2"} /\ matchIndex = 0) =>
        \A s \in 0..Len(Split(fileContent)) :
            VerbatimAt(Split(fileContent), s, Split(input)) =>
                output = Text(Replaced(Split(fileContent), s, s + Len(Split(input)),
                                  Reindented(Split(replacement),
                                      LeadingWhitespace(Split(fileContent)[s + 1]))))

\* s is the first offset at which the block occurs, and in "LT" the block
\* neither begins nor ends with a blank line
RoundTripCase(s) ==
    /\ op = "applyReplacement"
    /\ variant \in {"LT", "FW2"}
    /\ matchIndex = 0
    /\ VerbatimAt(Split(fileContent), s, Split(input))
    /\ \A t \in 0..(s - 1) : ~ExactWindow(Split(fileContent), t, Split(input))
    /\ variant = "LT" => /\ ~IsBlank(Split(input)[1])
                         /\ ~IsBlank(Split(input)[Len(Split(input))])

\* C2, amended: when [s, e) is the first place of the document whose lines
\* equal the block up to indentation (and, in "LT", the block neither begins
\* nor ends with a blank line), applyReplacement with the first match returns
\* the document with exactly the lines [s, e) replaced by the lines of the
\* replacement ("LT": of the replacement without its outer whitespace), each
\* non-blank one re-indented to the leading whitespace of line s.
C2_RoundTrip ==
    \A s \in 0..Len(Split(fileContent)) :
        RoundTripCase(s) =>
            output = Text(Replaced(Split(fileContent), s, s + Len(Split(input)),
                              Reindented(Split(IF variant = "LT" THEN Trim(replacement)
                                               ELSE replacement),
                                         LeadingWhitespace(Split(fileContent)[s + 1]))))

\* An indented block found below the first line is replaced by several lines
C2_Witness ==
    \E s \in 1..Len(Split(fileContent)) :
        /\ RoundTripCase(s)
        /\ LeadingWhitespace(Split(fileContent)[s + 1]) # << >>
        /\ Len(Split(Trim(replacement))) >= 2
        /\ output.kind = "text"
        /\ output.text # fileContent

\* C5, as claimed: for every document, patch text and integer matchIndex,
\* applyPatch and previewPatch never throw, return null whenever patch fails
\* or matchIndex is not an index of the match list, and return a text only
\* when 0 <= matchIndex < matches.length.
C5_NullOnFailure ==
    op \in {"applyPatch", "previewPatch"} =>
        /\ output # Throw
        /\ (~patchResult.success
              \/ matchIndex \notin 0..(Len(patchResult.matches) - 1))
           => output = Null

\* The lines applyReplacement puts in place of the matched lines
InsertedLines ==
    Slice(Split(output.text), matches[matchIndex + 1].startLine,
          Len(Split(output.text))
              - (Len(Split(fileContent)) - matches[matchIndex + 1].endLine))

\* C6, as claimed: applyReplacement inserts one line per line of the
\* replacement text: match.baseIndent followed by the trimmed line for a
\* non-blank line, the line itself for an empty or whitespace-only line.
C6_IndentationEveryLine ==
    (op = "applyReplacement" /\ variant = "LT") =>
        InsertedLines = Reindented(Split(replacement),
                                   matches[matchIndex + 1].baseIndent)

\* C6, amended: applyReplacement inserts one line per line of the replacement
\* text, taken without its outer whitespace in the block-input variants:
\* match.baseIndent followed by the trimmed line for a non-blank line, the
\* line itself for an empty or whitespace-only line.
C6_Indentation ==
    op = "applyReplacement" =>
        /\ output.kind = "text"
        /\ InsertedLines =
              Reindented(Split(IF variant = "FW2" THEN replacement
                               ELSE Trim(replacement)),
                         matches[matchIndex + 1].baseIndent)
        /\ Slice(Split(output.text), 0, matches[matchIndex + 1].startLine)
              = Slice(Split(fileContent), 0, matches[matchIndex + 1].startLine)

\* An indented place receives a replacement with blank lines inside it
C6_Witness ==
    /\ op = "applyReplacement"
    /\ variant = "LT"
    /\ matches[matchIndex + 1].baseIndent # << >>
    /\ \E k \in 1..Len(InsertedLines) : InsertedLines[k] = <<SP>>
    /\ \E k \in 1..Len(InsertedLines) :
          InsertedLines[k] = matches[matchIndex + 1].baseIndent \o <<"d">>

---------------------------------------------------------------------------
(* Invariants of the matches of findMatches *)

\* C11: in every variant, for every document, block and options, the matches
\* of one result of findMatches are pairwise distinct by (startLine, endLine).
C11_DistinctRanges ==
    op = "findMatches" =>
        \A i, j \in 1..Len(matches) :
            (/\ matches[i].startLine = matches[j].startLine
             /\ matches[i].endLine = matches[j].endLine) => i = j

\* Two matches start at the same line and end at different ones, and two
\* others end at the same line
C11_Witness ==
    /\ op = "findMatches"
    /\ \E i, j \in 1..Len(matches) :
          /\ matches[i].startLine = matches[j].startLine
          /\ matches[i].endLine # matches[j].endLine
    /\ \E i, j \in 1..Len(matches) :
          /\ matches[i].endLine = matches[j].endLine
          /\ matches[i].startLine # matches[j].startLine

\* The lines of the document as findMatches of snapshot v splits them
DocumentLines(v, content) ==
    IF v = "CA" THEN Split(normalizeLineEndings(content)) ELSE Split(content)

\* C12: every match returned by findMatches, in any variant, satisfies
\* 0 <= startLine <= endLine <= number of lines of the document.
C12_RangeInDocument ==
    op = "findMatches" =>
        LET lineCount == Len(DocumentLines(variant, fileContent))
        IN  \A i \in 1..Len(matches) :
               /\ 0 <= matches[i].startLine
               /\ matches[i].startLine <= matches[i].endLine
               /\ matches[i].endLine <= lineCount

\* One match covers the whole document and another ends before its last line
C12_Witness ==
    /\ op = "findMatches"
    /\ Len(DocumentLines(variant, fileContent)) >= 3
    /\ \E i \in 1..Len(matches) :
          /\ matches[i].startLine = 0
          /\ matches[i].endLine = Len(DocumentLines(variant, fileContent))
    /\ \E i \in 1..Len(matches) :
          /\ matches[i].startLine > 0
          /\ matches[i].endLine < Len(DocumentLines(variant, fileContent))

InUnitInterval(x) == RLe(<<0, 1>>, x) /\ RLe(x, <<1, 1>>)

\* C13: every match returned by findMatches, in any variant, has
\* 0 <= confidence <= 1 and 0 <= similarity <= 1, for every document, block,
\* fuzzyMatch setting and minConfidence.
C13_ScoresInUnitInterval ==
    op = "findMatches" =>
        \A i \in 1..Len(matches) :
            /\ InUnitInterval(matches[i].confidence)
            /\ InUnitInterval(matches[i].similarity)

\* A window with an empty line, of another length than the block, is returned
\* with a confidence strictly between 0 and 1
C13_Witness ==
    /\ op = "findMatches"
    /\ variant = "LT"
    /\ \E i \in 1..Len(matches) :
          /\ matches[i].endLine - matches[i].startLine
                # Len(SearchedLines("LT", input))
          /\ \E k \in (matches[i].startLine + 1)..matches[i].endLine :
                Split(fileContent)[k] = << >>
          /\ RLt(<<0, 1>>, matches[i].confidence)
          /\ RLt(matches[i].confidence, <<1, 1>>)
          /\ RLt(matches[i].confidence, matches[i].similarity)

---------------------------------------------------------------------------
(* Properties of levenshteinDistance and similarityRatio *)

\* The edit distance of the first i characters of a and the first j of b:
\* the least number of insertions, deletions and substitutions, each of cost 1
RECURSIVE EditDistance(_, _, _, _)
EditDistance(a, b, i, j) ==
    IF i = 0 THEN j
    ELSE IF j = 0 THEN i
    ELSE MinOf({EditDistance(a, b, i - 1, j) + 1,
                EditDistance(a, b, i, j - 1) + 1,
                EditDistance(a, b, i - 1, j - 1) + (IF a[i] = b[j] THEN 0 ELSE 1)})

Kitten == <<"k", "i", "t", "t", "e", "n">>
Sitting == <<"s", "i", "t", "t", "i", "n", "g">>

\* C14: levenshteinDistance(a, b) is the standard edit distance, hence 0 for
\* a = b and 3 for 'kitten' and 'sitting'; similarityRatio(a, b) is
\* 1 - distance / max(len a, len b), and 1.0 for a = b, the empty strings
\* included.
C14_EditDistance ==
    op = "similarityRatio" =>
        /\ output.distance
              = EditDistance(fileContent, input, Len(fileContent), Len(input))
        /\ output.ratio
              = IF Len(fileContent) = 0 /\ Len(input) = 0 THEN <<1, 1>>
                ELSE Rat(Max(Len(fileContent), Len(input)) - output.distance,
                         Max(Len(fileContent), Len(input)))
        /\ fileContent = input => output.distance = 0 /\ output.ratio = <<1, 1>>
        /\ (fileContent = Kitten /\ input = Sitting) => output.distance = 3

\* The documented example has been computed
C14_Witness ==
    /\ op = "similarityRatio"
    /\ fileContent = Kitten
    /\ input = Sitting
    /\ output.distance = 3
    /\ output.ratio = <<4, 7>>

---------------------------------------------------------------------------
(* Properties of parsePatchInput *)

\* The word stands in the text t right after its first p characters
OccursAt(t, p, word) ==
    /\ p + Len(word) <= Len(t)
    /\ \A k \in 1..Len(word) : t[p + k] = word[k]

\* The text holds the first word and, somewhere after it, the second
InOrder(t, first, second) ==
    \E p, q \in 0..Len(t) :
        OccursAt(t, p, first) /\ OccursAt(t, q, second) /\ p + Len(first) <= q

\* The SEARCH marker, then the divider, then the REPLACE marker
LegacyMarkersInOrder(t) ==
    \E p, q, r \in 0..Len(t) :
        /\ OccursAt(t, p, SearchMarker)
        /\ OccursAt(t, q, DividerMarker)
        /\ OccursAt(t, r, ReplaceMarker)
        /\ p + Len(SearchMarker) <= q
        /\ q + Len(DividerMarker) <= r

\* The markers of one format that snapshot v supports are present, in order
SomeFormatInOrder(v, t) ==
    \/ LegacyMarkersInOrder(t)
    \/ /\ v = "FW2"
       /\ \/ InOrder(t, <<"O", "L", "D", ":">>, <<"N", "E", "W", ":">>)
          \/ InOrder(t, <<"[", "O", "L", "D", "]">>, <<"[", "N", "E", "W", "]">>)

\* C15, as claimed: parsePatchInput returns null unless, for at least one
\* supported format, all markers of the format are present and in the correct
\* order (OLD before NEW; SEARCH marker, divider, REPLACE marker).
C15_NullUnlessInOrder ==
    op = "parsePatchInput" => (~SomeFormatInOrder(variant, input) => IsNull(output))

\* C16, as claimed: parsePatchInput never returns a PatchInput whose search
\* or replace field is empty.
C16_NoEmptyBody ==
    (op = "parsePatchInput" /\ ~IsNull(output)) =>
        output.search # << >> /\ output.replace # << >>

\* C16, amended: the search and replace fields of a PatchInput returned by
\* parsePatchInput are trimmed bodies: neither begins or ends with white
\* space, and either may be empty; a SEARCH/REPLACE text with an empty or
\* whitespace-only body parses to a PatchInput with that field empty.
C16_TrimmedBodies ==
    (op = "parsePatchInput" /\ ~IsNull(output)) =>
        /\ Trim(output.search) = output.search
        /\ Trim(output.replace) = output.replace
        /\ \A x \in SearchBodies, y \in ReplaceBodies :
              input = LegacyText(x, y) => output = PatchInput(Trim(x), Trim(y))

\* A text whose search body is empty and whose replace body is indented has
\* been parsed
C16_Witness ==
    /\ op = "parsePatchInput"
    /\ input = LegacyText(<< >>, <<SP, "c">>)
    /\ output = PatchInput(<< >>, <<"c">>)

\* C17: the formats are tried in the order OLD:/NEW:, [OLD]/[NEW],
\* SEARCH/REPLACE and the first that succeeds determines the result: for a
\* text holding a well-formed text of a format before or after a well-formed
\* text of a format of lower priority, search and replace are the trimmed
\* bodies of the format of higher priority (the NEW body runs to the end of
\* the text).
C17_Precedence ==
    (op = "parsePatchInput" /\ variant = "FW2") =>
        \A x \in CombinedSearches, y \in CombinedReplaces :
            /\ \A g \in {BracketText(<<"b">>, <<"d">>), LegacyText(<<"b">>, <<"d">>)} :
                  /\ input = SimpleText(x, y) \o <<NL>> \o g
                        => output = PatchInput(Trim(x), Trim(y \o <<NL>> \o g))
                  /\ input = g \o <<NL>> \o SimpleText(x, y)
                        => output = PatchInput(Trim(x), Trim(y))
            /\ input = BracketText(x, y) \o <<NL>> \o LegacyText(<<"b">>, <<"d">>)
                  => output = PatchInput(Trim(x),
                                  Trim(y \o <<NL>> \o LegacyText(<<"b">>, <<"d">>)))
            /\ input = LegacyText(<<"b">>, <<"d">>) \o <<NL>> \o BracketText(x, y)
                  => output = PatchInput(Trim(x), Trim(y))

\* A SEARCH/REPLACE text followed by an OLD:/NEW: text has been parsed as the
\* latter
C17_Witness ==
    /\ op = "parsePatchInput"
    /\ variant = "FW2"
    /\ input = LegacyText(<<"b">>, <<"d">>) \o <<NL>>
                  \o SimpleText(<<SP, "a", "b">>, <<SP, "c">>)
    /\ output = PatchInput(<<"a", "b">>, <<"c">>)

---------------------------------------------------------------------------
(* Line endings *)

\* The text with every CRLF and every remaining CR turned into LF
RECURSIVE WithLineFeeds(_)
WithLineFeeds(t) ==
    IF t = << >> THEN << >>
    ELSE IF Head(t) = CR
         THEN <<NL>> \o WithLineFeeds(IF Len(t) >= 2 /\ t[2] = NL
                                      THEN SubSeq(t, 3, Len(t)) ELSE Tail(t))
         ELSE <<Head(t)>> \o WithLineFeeds(Tail(t))

\* The ranges and confidences of the matches, in their order
Ranked(ms) ==
    [k \in 1..Len(ms) |-> <<ms[k].startLine, ms[k].endLine, ms[k].confidence>>]

\* C18, as claimed: for every document and block, findMatches returns the
\* same sequence of (startLine, endLine, confidence) whether the document and
\* the block use LF, CRLF or bare CR line endings.
C18_LineEndingEquivalence ==
    op = "findMatches" =>
        Ranked(matches)
            = Ranked(CodePatcher(variant, "findMatches",
                                 <<WithLineFeeds(fileContent), WithLineFeeds(input),
                                   options>>))

---------------------------------------------------------------------------
(* Confidence and window length *)

\* The average similarity of the lines the window at offset i, of len lines,
\* shares with the block, line by line, in "LT"
AverageSimilarityLT(windowLines, blockLines) ==
    RDivInt(TotalSim(normalizeLines(windowLines), normalizeLines(blockLines),
                     Min(Len(windowLines), Len(blockLines))),
            Min(Len(windowLines), Len(blockLines)))

\* The pairs <<average similarity, confidence>> of the windows of fileLines
\* whose line count is in lens, in "LT"
AgreementAndConfidenceLT(fileLines, blockLines, opts, lens) ==
    UNION {{<<AverageSimilarityLT(Slice(fileLines, i, i + len), blockLines),
              calculateConfidence(Slice(fileLines, i, i + len),
                                  blockLines, opts).confidence>> :
               i \in 0..(Len(fileLines) - len)} : len \in lens}

CloserScoresHigherLT(others, closest) ==
    \A other \in others :
       \A closer \in closest :
          other[1] = closer[1] => RLe(other[2], closer[2])

\* The window sizes "CA" scans for the block of the call
WindowSizesScannedCA ==
    {w \in 3..Len(SearchedLines("CA", input)) :
        w >= Len(SearchedLines("CA", input)) \div 2}

\* C19: of two candidate windows with identical context agreement (the same
\* contextMatchLength in "CA", the same average per-line similarity over the
\* compared lines in "LT"), the one whose line count is closer to the block's
\* has a confidence greater than or equal to the other's.  The windows of "LT"
\* have N-1, N or N+1 lines, so the closer one has N lines; those of "CA" have
\* at most N lines, so the closer one is the larger; a returned window is
\* compared with the other returned windows and with the score of every
\* smaller window of the same contextMatchLength.  The confidence of a
\* window does not depend on minConfidence: the windows are compared in the
\* calls that leave it at its default.
C19_CloserLengthScoresHigher ==
    (op = "findMatches" /\ "minConfidence" \notin DOMAIN options) =>
        /\ variant = "LT" =>
              CloserScoresHigherLT(
                  AgreementAndConfidenceLT(
                      Split(fileContent), SearchedLines("LT", input),
                      WithDefaults(<<3, 5>>, options),
                      WindowLengthsLT \ {Len(SearchedLines("LT", input))}),
                  AgreementAndConfidenceLT(
                      Split(fileContent), SearchedLines("LT", input),
                      WithDefaults(<<3, 5>>, options),
                      WindowLengthsLT \cap {Len(SearchedLines("LT", input))}))
        /\ variant = "CA" =>
              /\ \A i, j \in 1..Len(matches) :
                    (/\ matches[i].contextMatchLength = matches[j].contextMatchLength
                     /\ matches[i].endLine - matches[i].startLine
                           < matches[j].endLine - matches[j].startLine)
                    => RLe(matches[i].confidence, matches[j].confidence)
              /\ \A i \in 1..Len(matches) :
                    \A w \in WindowSizesScannedCA :
                       w < matches[i].endLine - matches[i].startLine =>
                          RLe(confidenceCA(matches[i].contextMatchLength, w,
                                           Len(SearchedLines("CA", input))),
                              matches[i].confidence)

\* Two windows of different sizes are returned with the same
\* contextMatchLength, the larger with the strictly higher confidence
C19_Witness ==
    /\ op = "findMatches"
    /\ variant = "CA"
    /\ "minConfidence" \notin DOMAIN options
    /\ \E i, j \in 1..Len(matches) :
          /\ matches[i].contextMatchLength = matches[j].contextMatchLength
          /\ matches[j].endLine - matches[j].startLine
                > matches[i].endLine - matches[i].startLine
          /\ RLt(matches[i].confidence, matches[j].confidence)


---------------------------------------------------------------------------
(* A replacement that changes nothing *)

\* The lines of the replacement as applyReplacement of snapshot v splits them
ReplacementLines(v, text) ==
    IF v = "LT" THEN Split(Trim(text))
    ELSE IF v = "CA" THEN Split(normalizeLineEndings(Trim(text)))
    ELSE Split(text)

\* The lines of the replacement, re-indented to the base indent of the chosen
\* match, are the lines of the document the match covers
NoOpReplace ==
    /\ op = "applyReplacement"
    /\ Reindented(ReplacementLines(variant, replacement),
                  matches[matchIndex + 1].baseIndent)
          = Slice(DocumentLines(variant, fileContent),
                  matches[matchIndex + 1].startLine, matches[matchIndex + 1].endLine)

---------------------------------------------------------------------------
(* The result of patch *)

\* patchResult holds what patch returned for fileContent and input, called
\* directly or by applyPatch or previewPatch
PatchReturned == op \in {"patch", "applyPatch", "previewPatch"}

\* How the call of patch ended, told from its arguments and its success flag
PatchOutcome ==
    IF variant \in MarkerVariants /\ IsNull(ParsedInput(variant, input)) THEN "format error"
    ELSE IF variant \in BlockVariants /\ Trim(input) = << >> THEN "empty block"
    ELSE IF patchResult.success THEN "success"
    ELSE "no match"

\* The outcome an error text stands for
MessageOutcome(error) ==
    IF error \in {FormatMessageFW1, FormatMessageFW2} THEN "format error"
    ELSE IF error = EmptyBlockMessage THEN "empty block"
    ELSE IF error \in {NoMatchMessageLT, NoMatchMessageCA,
                       NoMatchMessageFW1, NoMatchMessageFW2} THEN "no match"
    ELSE IF error = NoError THEN "success"
    ELSE "unknown"

\* C21: in every variant patch returns success = true iff matches is not
\* empty; a failure has no matches and a non-empty error message; a success
\* has no error; and the messages of the format-error, empty-block and
\* no-match outcomes are mutually distinct, each standing for its outcome.
C21_ResultShape ==
    PatchReturned =>
        /\ patchResult.success <=> Len(patchResult.matches) > 0
        /\ ~patchResult.success =>
              /\ patchResult.matches = << >>
              /\ patchResult.error # NoError
              /\ patchResult.error # ""
        /\ patchResult.success => patchResult.error = NoError
        /\ MessageOutcome(patchResult.error) = PatchOutcome
        /\ {FormatMessageFW1, FormatMessageFW2}
              \cap {NoMatchMessageLT, NoMatchMessageCA,
                    NoMatchMessageFW1, NoMatchMessageFW2, EmptyBlockMessage} = {}
        /\ EmptyBlockMessage \notin {NoMatchMessageLT, NoMatchMessageCA,
                                     NoMatchMessageFW1, NoMatchMessageFW2}

\* A well-formed patch text whose search body is found nowhere in a document
\* of several lines
C21_Witness ==
    /\ PatchReturned
    /\ variant = "FW2"
    /\ ~IsNull(ParsedInput(variant, input))
    /\ Len(Split(fileContent)) > 1
    /\ patchResult = PatchResult(FALSE, << >>, NoMatchMessageFW2)

---------------------------------------------------------------------------
(* The context-anchored search *)

WindowSize(m) == m.endLine - m.startLine

\* C23, as claimed: in "CA", once a match found at a window size has a
\* confidence above 0.7 no smaller window size is scanned, so no returned
\* match is smaller than a returned match of confidence above 0.7, also when
\* the first match recorded at that size has a confidence of at most 0.7.
C23_EarlyTermination ==
    (op = "findMatches" /\ variant = "CA") =>
        \A i, j \in 1..Len(matches) :
            RLt(<<7, 10>>, matches[i].confidence) =>
                WindowSize(matches[j]) >= WindowSize(matches[i])

\* The number of leading lines of the block that match the document from
\* line start on, and of trailing lines of the block that match the document
\* up to line end (exclusive), each stopping at the first mismatch
PrefixCount(blockLines, fileLines, start, fuzzy) ==
    MaxOf({k \in 0..Min(Len(blockLines), Len(fileLines) - start) :
              \A j \in 1..k : lineMatchesCA(blockLines[j], fileLines[start + j], fuzzy)})
SuffixCount(blockLines, fileLines, end, fuzzy) ==
    MaxOf({k \in 0..Min(Len(blockLines), end) :
              \A j \in 1..k :
                 lineMatchesCA(blockLines[Len(blockLines) - j + 1],
                               fileLines[end - j + 1], fuzzy)})

AcceptedCA(m, fileLines, blockLines, fuzzy) ==
    /\ Max(3, Len(blockLines) \div 2) <= WindowSize(m)
    /\ WindowSize(m) <= Len(blockLines)
    /\ m.contextMatchLength >= 2
    /\ m.contextMatchLength =
          PrefixCount(blockLines, fileLines, m.startLine, fuzzy)
          + SuffixCount(blockLines, fileLines, m.endLine, fuzzy)

\* C24: every match returned by findMatches in "CA" has a window size w with
\* max(3, floor(N/2)) <= w <= N and contextMatchLength = prefixMatch +
\* suffixMatch >= 2, the counts of consecutive matching lines from the
\* window's first line forward and from its last line backward.
C24_AcceptanceRule ==
    (op = "findMatches" /\ variant = "CA") =>
        \A i \in 1..Len(matches) :
            AcceptedCA(matches[i], DocumentLines("CA", fileContent),
                       SearchedLines("CA", input),
                       WithDefaults(<<1, 2>>, options).fuzzyMatch)

\* A returned window is shorter than the block, with one matching line at
\* each end
C24_Witness ==
    /\ op = "findMatches"
    /\ variant = "CA"
    /\ \E i \in 1..Len(matches) :
          /\ WindowSize(matches[i]) < Len(SearchedLines("CA", input))
          /\ matches[i].contextMatchLength = 2
          /\ PrefixCount(SearchedLines("CA", input), DocumentLines("CA", fileContent),
                         matches[i].startLine, TRUE) = 1

\* C26, as claimed: in "CA" the contextMatchLength of every returned match
\* is at most its window size endLine - startLine.
C26_ContextWithinWindow ==
    (op = "findMatches" /\ variant = "CA") =>
        \A i \in 1..Len(matches) :
            matches[i].contextMatchLength <= WindowSize(matches[i])

\* C26, amended: the prefix count and the suffix count are each at most N and
\* at most the lines the document has from startLine on, or up to endLine,
\* so contextMatchLength is at most 2 * N; the counts are not confined to the
\* window and a line may be counted in both: a window of N lines whose lines
\* all match the block has contextMatchLength = 2 * N.
C26_ContextCountedTwice ==
    (op = "findMatches" /\ variant = "CA") =>
        \A i \in 1..Len(matches) :
            /\ matches[i].contextMatchLength
                  <= Min(Len(SearchedLines("CA", input)),
                         Len(DocumentLines("CA", fileContent)) - matches[i].startLine)
                     + Min(Len(SearchedLines("CA", input)), matches[i].endLine)
            /\ matches[i].contextMatchLength <= 2 * Len(SearchedLines("CA", input))
            /\ (/\ WindowSize(matches[i]) = Len(SearchedLines("CA", input))
                /\ PrefixCount(SearchedLines("CA", input), DocumentLines("CA", fileContent),
                               matches[i].startLine,
                               WithDefaults(<<1, 2>>, options).fuzzyMatch)
                      = Len(SearchedLines("CA", input)))
                => matches[i].contextMatchLength = 2 * Len(SearchedLines("CA", input))

\* A window shorter than the block is returned with more context lines than
\* it has lines
C26_Witness ==
    /\ op = "findMatches"
    /\ variant = "CA"
    /\ \E i \in 1..Len(matches) :
          /\ WindowSize(matches[i]) < Len(SearchedLines("CA", input))
          /\ matches[i].contextMatchLength > WindowSize(matches[i])
---------------------------------------------------------------------------
(* The frame of applyReplacement *)

\* result has L - (endLine - startLine) + r lines, of which those before
\* startLine and those from startLine + r on are the lines of the document
\* before startLine and from endLine on
Frame(docLines, m, r, resultLines) ==
    /\ Len(resultLines) = Len(docLines) - (m.endLine - m.startLine) + r
    /\ Slice(resultLines, 0, m.startLine) = Slice(docLines, 0, m.startLine)
    /\ Slice(resultLines, m.startLine + r, Len(resultLines))
          = Slice(docLines, m.endLine, Len(docLines))

\* C25, as claimed: for every document with L lines, every match with
\* 0 <= startLine <= endLine <= L and every replacement with r lines, the
\* result of applyReplacement has L - (endLine - startLine) + r lines, its
\* lines before startLine are the document's, and its lines from
\* startLine + r on are the document's lines from endLine on.
C25_FrameOfReplacement ==
    (op = "applyReplacement" /\ variant \in BlockVariants) =>
        /\ output.kind = "text"
        /\ Frame(Split(fileContent), matches[matchIndex + 1],
                 Len(Split(replacement)), Split(output.text))

\* C25, amended: with L and the document's lines counted after line-ending
\* normalization in "CA", and r the number of lines of the replacement text
\* trimmed as a whole in the block-input variants (and normalized in "CA"),
\* the result has L - (endLine - startLine) + r lines, its lines before
\* startLine are the document's, its lines from startLine + r on are the
\* document's lines from endLine on, and the r lines in between are the
\* re-indented lines of the replacement.
C25_FrameOfSplitLines ==
    op = "applyReplacement" =>
        /\ output.kind = "text"
        /\ Frame(DocumentLines(variant, fileContent), matches[matchIndex + 1],
                 Len(ReplacementLines(variant, replacement)), Split(output.text))
        /\ Slice(Split(output.text), matches[matchIndex + 1].startLine,
                 matches[matchIndex + 1].startLine
                    + Len(ReplacementLines(variant, replacement)))
              = Reindented(ReplacementLines(variant, replacement),
                           matches[matchIndex + 1].baseIndent)

\* A line below the first is replaced by a replacement that ends with blank
\* lines, which are not inserted, and the line above it is kept
C25_Witness ==
    /\ op = "applyReplacement"
    /\ variant = "LT"
    /\ matches[matchIndex + 1].startLine > 0
    /\ Len(Split(replacement)) > Len(ReplacementLines(variant, replacement)) + 1
    /\ output.kind = "text"
    /\ Len(Split(output.text)) = Len(Split(fileContent))
    /\ output.text # fileContent

---------------------------------------------------------------------------
(* Exact-length and length-adjusted windows at the same start, in "LT" *)

\* No window of adjusted at an offset where exact has one scores higher
NeverHigher(adjusted, exact) ==
    \A k \in 1..Min(Len(adjusted), Len(exact)) : RLe(adjusted[k], exact[k])

\* Every score of adjusted is at most ceiling, and is below the score of an
\* exactly matching window of exact at the same offset
BelowCeiling(adjusted, exact, ceiling) ==
    /\ \A k \in 1..Len(adjusted) : RLe(adjusted[k], ceiling)
    /\ \A k \in 1..Min(Len(adjusted), Len(exact)) :
          RLe(<<1, 1>>, exact[k]) => RLt(adjusted[k], exact[k])

ExactLengthBiasLT(fileLines, blockLines, opts) ==
    \A len \in WindowLengthsLT \ {Len(blockLines)} :
       NeverHigher(ScoresLT(fileLines, blockLines, opts, len),
                   ScoresLT(fileLines, blockLines, opts, Len(blockLines)))

AdjustedCeilingLT(fileLines, blockLines, opts) ==
    \A len \in WindowLengthsLT \ {Len(blockLines)} :
       BelowCeiling(ScoresLT(fileLines, blockLines, opts, len),
                    ScoresLT(fileLines, blockLines, opts, Len(blockLines)),
                    RSub(<<9, 10>>, Rat(1, 2 * Max(len, Len(blockLines)))))

\* C27, as claimed: in "LT", for every document, block and start offset i at
\* which both windows exist, the window of N-1 or N+1 lines starting at i
\* never has a strictly higher confidence than the window of N lines
\* starting at i.
C27_ExactLengthNeverOutranked ==
    (op = "findMatches" /\ variant = "LT") =>
        ExactLengthBiasLT(Split(fileContent), SearchedLines("LT", input),
                          WithDefaults(<<3, 5>>, options))

\* C27, amended: in "LT" the confidence of a window of w = N-1 or N+1 lines
\* is at most 0.9 - 1 / (2 * max(N, w)), so it is strictly below the
\* confidence 1.0 of a window of N lines at the same start whose lines equal
\* the block's up to indentation; it may exceed the confidence of a window of
\* N lines at the same start that matches the block only approximately.
C27_AdjustedCeiling ==
    (op = "findMatches" /\ variant = "LT") =>
        AdjustedCeilingLT(Split(fileContent), SearchedLines("LT", input),
                          WithDefaults(<<3, 5>>, options))

\* A shorter window is returned ahead of the window of N lines at the same
\* start, with a strictly higher confidence, and a window of N lines that
\* matches exactly is returned first
C27_Witness ==
    /\ op = "findMatches"
    /\ variant = "LT"
    /\ \E i, j \in 1..Len(matches) :
          /\ i < j
          /\ matches[i].startLine = matches[j].startLine
          /\ WindowSize(matches[j]) = Len(SearchedLines("LT", input))
          /\ WindowSize(matches[i]) # Len(SearchedLines("LT", input))
          /\ RLt(matches[j].confidence, matches[i].confidence)
    /\ RLe(<<1, 1>>, matches[1].confidence)

---------------------------------------------------------------------------
(* The preview and the edit *)

HasPrefix(line, prefix) ==
    Len(line) >= Len(prefix) /\ Slice(line, 0, Len(prefix)) = prefix

RECURSIVE MarkedFrom(_, _, _)
MarkedFrom(ls, prefix, k) ==
    IF k > Len(ls) THEN << >>
    ELSE (IF HasPrefix(ls[k], prefix)
             THEN <<Slice(ls[k], Len(prefix), Len(ls[k]))>> ELSE << >>)
         \o MarkedFrom(ls, prefix, k + 1)

\* The lines of a preview text that begin with prefix, in order, without it
Marked(text, prefix) == MarkedFrom(Split(text), prefix, 1)

\* The preview names the range of match m, its "- " lines are the lines of
\* that range, and the document with these lines replaced by its "+ " lines
\* is the text applied
ShowsTheEdit(preview, m, docLines, applied) ==
    /\ preview.fromLine = m.startLine + 1
    /\ preview.toLine = m.endLine
    /\ Marked(preview.text, <<"-", SP>>) = Slice(docLines, m.startLine, m.endLine)
    /\ applied = Text(Join(Slice(docLines, 0, m.startLine)
                           \o Marked(preview.text, <<"+", SP>>)
                           \o Slice(docLines, m.endLine, Len(docLines))))

\* previewPatch was called with an index of the match list
ValidPreview ==
    /\ op = "previewPatch"
    /\ patchResult.success
    /\ 0 <= matchIndex
    /\ matchIndex < Len(patchResult.matches)

\* C28: for every document, patch text and valid matchIndex, the lines
\* prefixed "- " in the output of previewPatch are exactly the document lines
\* [startLine, endLine) that applyPatch removes, the lines prefixed "+ " are
\* exactly the lines applyPatch inserts in their place, and the header gives
\* the range as lines startLine + 1 to endLine.
C28_PreviewShowsTheEdit ==
    ValidPreview =>
        /\ output.kind = "preview"
        /\ ShowsTheEdit(output, patchResult.matches[matchIndex + 1],
                        DocumentLines(variant, fileContent),
                        CodePatcher(variant, "applyPatch",
                                    <<fileContent, input, matchIndex, << >> >>))

\* The preview of an edit at an indented place, below the first line of the
\* document, that puts several lines in the place of one
C28_Witness ==
    /\ ValidPreview
    /\ output.kind = "preview"
    /\ patchResult.matches[matchIndex + 1].baseIndent # << >>
    /\ patchResult.matches[matchIndex + 1].startLine > 0
    /\ Len(Marked(output.text, <<"+", SP>>))
          > Len(Marked(output.text, <<"-", SP>>))
    /\ Len(Marked(output.text, <<SP, SP>>)) > 0

---------------------------------------------------------------------------
(* Applying the same block again, in "LT" *)

\* applyPatch(D, B, 0) returned the text D1
FirstApplication ==
    /\ op = "applyPatch"
    /\ variant = "LT"
    /\ matchIndex = 0
    /\ output.kind = "text"

\* The top-ranked match of found is the range of first.startLine and as many
\* lines as the block has, with confidence 1.0, and applying the block at it
\* gives again the text applied
RangeWrittenIsOnTop(found, first, blockLines, again, applied) ==
    /\ Len(found) > 0
    /\ found[1].startLine = first.startLine
    /\ found[1].endLine = first.startLine + Len(blockLines)
    /\ found[1].confidence = <<1, 1>>
    /\ again = applied

\* C29: in "LT", for every document D and block B for which
\* applyPatch(D, B, 0) returns D1, applyPatch(D1, B, 0) returns D1 again:
\* the top-ranked match in D1 is the range just written, with confidence 1.0.
C29_Reapplication ==
    FirstApplication =>
        RangeWrittenIsOnTop(
            CodePatcher("LT", "findMatches", <<output.text, Trim(input), << >> >>),
            patchResult.matches[1], SearchedLines("LT", input),
            CodePatcher("LT", "applyPatch", <<output.text, input, 0, << >> >>),
            output)

\* The first application changed the document: it wrote the block over a
\* range of another length that matched it approximately
C29_Witness ==
    /\ FirstApplication
    /\ output.text # fileContent
    /\ WindowSize(patchResult.matches[1]) # Len(SearchedLines("LT", input))
    /\ RLt(patchResult.matches[1].confidence, <<1, 1>>)
    /\ CodePatcher("LT", "applyPatch", <<output.text, input, 0, << >> >>) = output

---------------------------------------------------------------------------
(* The commands of the extension: what leads to an edit, and which *)

\* The command handed an edit to applyEdit
EditWasIssued == edit.kind = "edit"

C30_EditIsTheOneConfirmed ==
    EditWasIssued =>
        /\ edit.uri = target.uri
        /\ edit.startLine = target.match.startLine
        /\ edit.endLine = target.match.endLine

===========================================================================
